---- MODULE Spec2Model ----
(***************************************************************************)
(* Asset-folder registry, rename-transaction coordinator, reference        *)
(* rewriter and path-pattern resolver of the enhanced-publisher plugin.    *)
(*                                                                         *)
(* Strings of the program (paths, document text) are sequences of atoms:   *)
(* an atom is a run of characters that the program's regular expressions and*)
(* string operations never split ("/", ".md", "__assets", a name, ...).    *)
(***************************************************************************)
EXTENDS Integers, Sequences, FiniteSets, TLC

VARIABLES
    docs,        \* vault: markdown TFile objects, file identity -> current path
    folders,     \* vault: paths of the TFolder objects
    files,       \* vault: paths of the other TFile objects (images, ...)
    content,     \* vault: file identity -> document text
    cache,       \* AssetManager.cachedAssetFolders: document path -> folder path
    em,          \* EventManager: its transaction fields
    timers,      \* the runtime's pending setTimeout timers
    procs,       \* async functions in flight, each at an await
    paused,      \* FileExplorerEnhancer._mutationPaused
    feTxn,       \* FileExplorerEnhancer._currentTransactionId
    registered,  \* the rename listener is registered with the vault
    now,         \* Date.now()
    imageAttachmentLocation, \* settings.imageAttachmentLocation
    h,           \* history: what the claims observe
    reg,         \* the component that is called directly: the caller's position, its state
    callLog      \* the completed calls of that caller, in order

vars == <<docs, folders, files, content, cache, em, timers, procs, paused,
          feTxn, registered, now, imageAttachmentLocation, h, reg, callLog>>

----------------------------------------------------------------------------
\* Bounds of the model

MaxCalls == 3

MaxProcs == 2

MaxEvents == 2

MaxTicks == 2

RandomIds == 2

TicksPerTimeout == 2

----------------------------------------------------------------------------
\* Strings

ASSETS_FOLDER_SUFFIX == "__assets"

MD_EXT == ".md"

SEP == "/"

Last(s) == s[Len(s)]

Front(s) == SubSeq(s, 1, Len(s) - 1)

\* s.replace(/\.md$/, suffix): a path that does not end in ".md" is unchanged
ReplaceMdSuffix(p, suffix) ==
    IF Len(p) > 0 /\ Last(p) = MD_EXT THEN Front(p) \o <<suffix>> ELSE p

\* position of the last "/" of p, 0 if none
RECURSIVE LastSep(_, _)
LastSep(p, i) ==
    IF i = 0 THEN 0 ELSE IF p[i] = SEP THEN i ELSE LastSep(p, i - 1)

\* p.split('/').pop()
BaseName(p) == SubSeq(p, LastSep(p, Len(p)) + 1, Len(p))

IsPrefix(a, b) == Len(a) <= Len(b) /\ SubSeq(b, 1, Len(a)) = a

----------------------------------------------------------------------------
\* The vault (host storage). A world w is a record of the whole state; the
\* program's functions map a world to the world they leave.

DocIds == {"d1", "d2"}

PathA == <<"a", MD_EXT>>

PathB == <<"b", MD_EXT>>

PathC == <<"F", SEP, "a", MD_EXT>>

DocPaths == {PathA, PathB, PathC}

NoPath == <<>>

World ==
    [docs |-> docs, folders |-> folders, files |-> files, content |-> content,
     cache |-> cache, em |-> em, timers |-> timers, procs |-> procs,
     paused |-> paused, feTxn |-> feTxn, now |-> now, h |-> h]

Commit(w) ==
    /\ docs' = w.docs
    /\ folders' = w.folders
    /\ files' = w.files
    /\ content' = w.content
    /\ cache' = w.cache
    /\ em' = w.em
    /\ timers' = w.timers
    /\ procs' = w.procs
    /\ paused' = w.paused
    /\ feTxn' = w.feTxn
    /\ h' = w.h

\* getAbstractFileByPath(p) instanceof TFolder
IsFolder(w, p) == p \in w.folders

\* the markdown TFile at path p, "" if none
DocAt(w, p) ==
    IF \E d \in DocIds : w.docs[d] = p
    THEN CHOOSE d \in DocIds : w.docs[d] = p
    ELSE ""

\* getAbstractFileByPath(p) instanceof TFile
IsFile(w, p) == p \in w.files \/ DocAt(w, p) # ""

\* getAbstractFileByPath(p) is not null
Exists(w, p) == IsFolder(w, p) \/ IsFile(w, p)

\* where a path lands when the tree at src is moved to dst
Rebase(p, src, dst) ==
    IF p = src THEN dst
    ELSE IF IsPrefix(src \o <<SEP>>, p)
         THEN dst \o SubSeq(p, Len(src) + 1, Len(p))
         ELSE p

\* what fileManager.renameFile(src, dst) can do in the vault of w: move the
\* tree, reject with "Destination file already exists!", or fail otherwise
RenameFileOutcomes(w, src, dst) ==
    (IF Exists(w, src) /\ ~Exists(w, dst) THEN {"ok"} ELSE {})
    \cup (IF Exists(w, dst) THEN {"exists"} ELSE {})
    \cup {"error"}

\* the vault after a settled renameFile(src, dst)
MoveTree(w, src, dst) ==
    [w EXCEPT !.folders = {Rebase(p, src, dst) : p \in w.folders},
              !.files = {Rebase(p, src, dst) : p \in w.files},
              !.docs = [d \in DocIds |-> Rebase(w.docs[d], src, dst)]]

----------------------------------------------------------------------------
\* AssetManager

CacheDelete(c, k) == [x \in DOMAIN c \ {k} |-> c[x]]

CacheSet(c, k, v) == [x \in DOMAIN c \cup {k} |-> IF x = k THEN v ELSE c[x]]

EmptyCache == [x \in {} |-> NoPath]

AssetFolderOf(docPath) == ReplaceMdSuffix(docPath, ASSETS_FOLDER_SUFFIX)

AssetFolderPaths == {AssetFolderOf(p) : p \in DocPaths}

\* renameAssetFolder without its check of the target path: always moves
RenameAssetFolderSync_NoTargetCheck(w, oldDocPath, newDocPath) ==
    LET oldFolderPath == ReplaceMdSuffix(oldDocPath, ASSETS_FOLDER_SUFFIX)
        newFolderPath == ReplaceMdSuffix(newDocPath, ASSETS_FOLDER_SUFFIX)
    IN  IF ~IsFolder(w, oldFolderPath)
        THEN [k |-> "return", result |-> FALSE, cache |-> w.cache,
              src |-> oldFolderPath, dst |-> newFolderPath]
        ELSE [k |-> "await", result |-> FALSE, cache |-> w.cache,
              src |-> oldFolderPath, dst |-> newFolderPath]

\* renameAssetFolder up to its await of renameFile (or its early return)
RenameAssetFolderSync(w, oldDocPath, newDocPath) ==
    LET oldFolderPath == ReplaceMdSuffix(oldDocPath, ASSETS_FOLDER_SUFFIX)
        newFolderPath == ReplaceMdSuffix(newDocPath, ASSETS_FOLDER_SUFFIX)
    IN  IF ~IsFolder(w, oldFolderPath)
        THEN [k |-> "return", result |-> FALSE, cache |-> w.cache,
              src |-> oldFolderPath, dst |-> newFolderPath]
        ELSE IF Exists(w, newFolderPath)
        THEN [k |-> "return", result |-> TRUE,
              cache |-> CacheSet(CacheDelete(w.cache, oldDocPath),
                                 newDocPath, newFolderPath),
              src |-> oldFolderPath, dst |-> newFolderPath]
        ELSE [k |-> "await", result |-> FALSE, cache |-> w.cache,
              src |-> oldFolderPath, dst |-> newFolderPath]

\* renameAssetFolder that takes every rejection of renameFile for a failure
RenameAssetFolderResume_ExistsIsFailure(w, oldDocPath, newDocPath, outcome) ==
    LET newFolderPath == ReplaceMdSuffix(newDocPath, ASSETS_FOLDER_SUFFIX)
    IN  IF outcome = "ok"
        THEN [result |-> TRUE,
              cache |-> CacheSet(CacheDelete(w.cache, oldDocPath),
                                 newDocPath, newFolderPath)]
        ELSE [result |-> FALSE, cache |-> w.cache]

\* renameAssetFolder after renameFile has settled with the given outcome
RenameAssetFolderResume(w, oldDocPath, newDocPath, outcome) ==
    LET newFolderPath == ReplaceMdSuffix(newDocPath, ASSETS_FOLDER_SUFFIX)
    IN  IF outcome \in {"ok", "exists"}
        THEN [result |-> TRUE,
              cache |-> CacheSet(CacheDelete(w.cache, oldDocPath),
                                 newDocPath, newFolderPath)]
        ELSE [result |-> FALSE, cache |-> w.cache]

----------------------------------------------------------------------------
\* PathPatternResolver: utils/path-utils getPathFromPattern and
\* AssetManager.getExpectedAssetFolderPathForDocPath

PLACEHOLDER == "${filename}"

DEFAULT_ASSETS_SUFFIX == "__assets"

\* DEFAULT_SETTINGS.imageAttachmentLocation
DefaultPattern == <<PLACEHOLDER, DEFAULT_ASSETS_SUFFIX>>

\* the atoms that are a file extension (".md", ".png": the text from the last ".")
ExtAtoms == {MD_EXT, ".png"}

\* the document's folder: the path up to its last "/", <<>> at the vault root
ParentPath(p) ==
    LET i == LastSep(p, Len(p)) IN IF i = 0 THEN <<>> ELSE SubSeq(p, 1, i - 1)

\* the document's basename: its last segment without the extension
DocBaseName(p) ==
    LET b == BaseName(p)
    IN  IF Len(b) > 0 /\ Last(b) \in ExtAtoms THEN Front(b) ELSE b

\* pattern with every ${filename} replaced by the basename
RECURSIVE Substitute(_, _)
Substitute(pattern, baseName) ==
    IF pattern = <<>> THEN <<>>
    ELSE (IF Head(pattern) = PLACEHOLDER THEN baseName ELSE <<Head(pattern)>>)
         \o Substitute(Tail(pattern), baseName)

\* getPathFromPattern that joins under the parent also at the vault root
GetPathFromPattern_NoRootRule(pattern, baseName, parentPath) ==
    LET pat == IF pattern = <<>> THEN DefaultPattern ELSE pattern
        path == Substitute(pat, baseName)
    IN  IF Head(path) = SEP THEN Tail(path)
        ELSE parentPath \o <<SEP>> \o path

\* getPathFromPattern that joins a rooted pattern under the parent as well
GetPathFromPattern_RootedUnderParent(pattern, baseName, parentPath) ==
    LET pat == IF pattern = <<>> THEN DefaultPattern ELSE pattern
        path == Substitute(pat, baseName)
        rel == IF Head(path) = SEP THEN Tail(path) ELSE path
    IN  IF parentPath \in {<<>>, <<SEP>>} THEN rel
        ELSE parentPath \o <<SEP>> \o rel

\* getPathFromPattern without the fallback for the empty pattern
GetPathFromPattern_NoFallback(pattern, baseName, parentPath) ==
    LET path == Substitute(pattern, baseName)
    IN  IF path # <<>> /\ Head(path) = SEP THEN Tail(path)
        ELSE IF parentPath \in {<<>>, <<SEP>>} THEN path
        ELSE parentPath \o <<SEP>> \o path

\* getPathFromPattern(pattern, file)
GetPathFromPattern(pattern, baseName, parentPath) ==
    LET pat == IF pattern = <<>> THEN DefaultPattern ELSE pattern
        path == Substitute(pat, baseName)
    IN  IF Head(path) = SEP THEN Tail(path)
        ELSE IF parentPath \in {<<>>, <<SEP>>} THEN path
        ELSE parentPath \o <<SEP>> \o path

\* getExpectedAssetFolderPathForDocPath(docPath), under the configured pattern
GetExpectedAssetFolderPathForDocPath(pattern, docPath) ==
    GetPathFromPattern(pattern, DocBaseName(docPath), ParentPath(docPath))

----------------------------------------------------------------------------
\* Document text

\* text.replace(new RegExp(old, 'g'), new) for a name old without
\* metacharacters: every occurrence, left to right, not overlapping
RECURSIVE ReplaceAll(_, _, _, _)
ReplaceAll(text, old, new, i) ==
    IF i > Len(text) THEN <<>>
    ELSE IF i + Len(old) - 1 <= Len(text) /\ SubSeq(text, i, i + Len(old) - 1) = old
         THEN new \o ReplaceAll(text, old, new, i + Len(old))
         ELSE <<text[i]>> \o ReplaceAll(text, old, new, i + 1)

\* updateImageReferences: the text it writes back for the text it read
RewrittenText(text, oldAssetFolder, newAssetFolder) ==
    LET oldFolderName == BaseName(oldAssetFolder)
        newFolderName == BaseName(newAssetFolder)
    IN  IF oldFolderName = <<>> \/ newFolderName = <<>> THEN text
        ELSE ReplaceAll(text, oldFolderName, newFolderName, 1)

\* s.replace(atom, by): the first occurrence only
RECURSIVE ReplaceFirst(_, _, _)
ReplaceFirst(s, atom, by) ==
    IF s = <<>> THEN <<>>
    ELSE IF Head(s) = atom THEN <<by>> \o Tail(s)
    ELSE <<Head(s)>> \o ReplaceFirst(Tail(s), atom, by)

----------------------------------------------------------------------------
\* EventManager: the rename transaction

TRANSACTION_TIMEOUT_MS == 10000

MAX_PROCESSED_TRANSACTIONS == 50

PRUNED_TRANSACTIONS == 10

NoTxn == <<>>

NoTimer == 0

\* the clock's step
TickMs == TRANSACTION_TIMEOUT_MS \div TicksPerTimeout

EmInit ==
    [txnId |-> NoTxn, processed |-> {}, timeout |-> NoTimer, busy |-> FALSE,
     done |-> <<>>]

InSeq(s, x) == \E i \in 1..Len(s) : s[i] = x

\* _processedTransactions.add(id), then the pruning of the oldest ids
AddProcessedTransaction(done, id) ==
    LET d1 == IF InSeq(done, id) THEN done ELSE Append(done, id)
    IN  IF Len(d1) > MAX_PROCESSED_TRANSACTIONS
        THEN SubSeq(d1, PRUNED_TRANSACTIONS + 1, Len(d1))
        ELSE d1

\* _generateTransactionId: Date.now() followed by random digits
GenerateTransactionId(t, rnd) == <<t, rnd>>

\* clearRenameTransaction
ClearRenameTransaction(w) ==
    LET w1 == IF w.em.timeout # NoTimer
              THEN [w EXCEPT !.timers = {t \in w.timers : t.id # w.em.timeout},
                             !.em.timeout = NoTimer]
              ELSE w
    IN  IF w1.em.txnId # NoTxn
        THEN [w1 EXCEPT !.em.done = AddProcessedTransaction(w1.em.done, w1.em.txnId),
                        !.em.txnId = NoTxn,
                        !.em.processed = {},
                        !.em.busy = FALSE,
                        !.h.nOpen = @ - 1]
        ELSE w1

\* the transaction opened over a world whose old transaction is out of the way
OpenTransaction(w1, delay, rnd) ==
    LET tid == w1.h.nTimers + 1
    IN  [w1 EXCEPT !.em.txnId = GenerateTransactionId(w1.now, rnd),
                   !.em.processed = {},
                   !.em.busy = TRUE,
                   !.em.timeout = tid,
                   !.timers = @ \cup {[id |-> tid, due |-> w1.now + delay]},
                   !.h.nTimers = tid,
                   !.h.nOpen = @ + 1,
                   !.h.nStarts = @ + 1]

\* startNewRenameTransaction that does not clear the old transaction first
StartNewRenameTransaction_NoClear(w, rnd) ==
    OpenTransaction(w, TRANSACTION_TIMEOUT_MS, rnd)

\* startNewRenameTransaction that reuses an open transaction
StartNewRenameTransaction_Reuse(w, rnd) ==
    IF w.em.txnId # NoTxn
    THEN [w EXCEPT !.h.nStarts = @ + 1]
    ELSE OpenTransaction(ClearRenameTransaction(w), TRANSACTION_TIMEOUT_MS, rnd)

\* startNewRenameTransaction whose timer is due at once
StartNewRenameTransaction_NoDelay(w, rnd) ==
    OpenTransaction(ClearRenameTransaction(w), 0, rnd)

\* startNewRenameTransaction that arms no timer
StartNewRenameTransaction_NoTimer(w, rnd) ==
    LET w1 == ClearRenameTransaction(w)
    IN  [w1 EXCEPT !.em.txnId = GenerateTransactionId(w1.now, rnd),
                   !.em.processed = {},
                   !.em.busy = TRUE,
                   !.h.nOpen = @ + 1,
                   !.h.nStarts = @ + 1]

\* startNewRenameTransaction
StartNewRenameTransaction(w, rnd) ==
    OpenTransaction(ClearRenameTransaction(w), TRANSACTION_TIMEOUT_MS, rnd)

\* markPathAsProcessedInTransaction
MarkPathAsProcessedInTransaction(w, path) ==
    IF w.em.txnId = NoTxn THEN w
    ELSE [w EXCEPT !.em.processed = @ \cup {path}]

\* isAssetFolder
IsAssetFolder(path) == Len(path) > 0 /\ Last(path) = DEFAULT_ASSETS_SUFFIX

----------------------------------------------------------------------------
\* Async functions in flight. Each occupies a slot from its first await to
\* its end: a document-rename handler (kind "doc") or an un-awaited
\* updateImageReferences started by the folder-rename handler (kind "rw").

Slots == 1..MaxProcs

NoProc ==
    [kind |-> "none", pc |-> "none", file |-> "", old |-> NoPath, new |-> NoPath,
     txn |-> NoTxn, src |-> NoPath, dst |-> NoPath, res |-> FALSE,
     rwOld |-> NoPath, rwNew |-> NoPath, text |-> <<>>, tick |-> FALSE]

FreeSlots(w) == {i \in Slots : w.procs[i].kind = "none"}

NewSlot(w) == CHOOSE i \in FreeSlots(w) : \A j \in FreeSlots(w) : i <= j

\* `${newAssetFolder}-temp-${Date.now()}`
TempPath(folderPath, t) == folderPath \o <<"-temp-", ToString(t)>>

\* FileExplorerEnhancer.handleDocumentRename: a transaction already handled
\* is skipped, any other one is recorded
ExplorerHandleDocumentRename(w, transactionId) ==
    IF transactionId # NoTxn /\ w.feTxn = transactionId THEN w
    ELSE [w EXCEPT !.feTxn = transactionId]

\* handleDocumentRenameProcess from the UI update to the end of its finally
\* block (prepareMutationObserver(true), clearRenameTransaction)
FinishDocumentRename(w, i) ==
    LET w1 == ExplorerHandleDocumentRename(w, w.procs[i].txn)
        w2 == [w1 EXCEPT !.paused = FALSE]
        w3 == ClearRenameTransaction(w2)
    IN  [w3 EXCEPT !.procs[i] = NoProc]

\* the end of an async function at slot i
EndProc(w, i) ==
    IF w.procs[i].kind = "doc" THEN FinishDocumentRename(w, i)
    ELSE [w EXCEPT !.procs[i] = NoProc]

AfterRenameAssetFolder_AnyPathChange(w, i) ==
    LET p == w.procs[i]
    IN  IF ~p.res THEN EndProc(w, i)
        ELSE IF p.rwOld # <<>> /\ p.rwNew # <<>> /\ p.rwOld # p.rwNew
        THEN IF DocAt(w, w.docs[p.file]) = "" THEN EndProc(w, i)
             ELSE [w EXCEPT !.procs[i].pc = "read",
                            !.procs[i].file = DocAt(w, w.docs[p.file])]
        ELSE EndProc(w, i)

\* DocumentManager.handleDocumentRename after renameAssetFolder has returned
\* procs[i].res: the references are updated if the folder's name changed
AfterRenameAssetFolder(w, i) ==
    LET p == w.procs[i]
    IN  IF ~p.res THEN EndProc(w, i)
        ELSE IF /\ p.rwOld # <<>> /\ p.rwNew # <<>>
                /\ BaseName(p.rwOld) # <<>> /\ BaseName(p.rwNew) # <<>>
                /\ BaseName(p.rwOld) # BaseName(p.rwNew)
        THEN \* updateImageReferences(file.path, ...) to its await of vault.read
             IF DocAt(w, w.docs[p.file]) = "" THEN EndProc(w, i)
             ELSE [w EXCEPT !.procs[i].pc = "read",
                            !.procs[i].file = DocAt(w, w.docs[p.file])]
        ELSE EndProc(w, i)

\* handleDocumentRenameProcess from startNewRenameTransaction to the first
\* await inside DocumentManager.handleDocumentRename
StartAndDelegate(w, i, rnd, pattern) ==
    LET p == w.procs[i]
        w1 == StartNewRenameTransaction(w, rnd)
        w2 == [w1 EXCEPT !.paused = TRUE, !.procs[i].txn = w1.em.txnId]
        newPath == w.docs[p.file]
        oldAssetFolder == GetExpectedAssetFolderPathForDocPath(pattern, p.old)
        newAssetFolder == GetExpectedAssetFolderPathForDocPath(pattern, newPath)
        r == RenameAssetFolderSync(w2, p.old, newPath)
    IN  [w2 EXCEPT !.cache = r.cache,
                   !.procs[i].pc = IF r.k = "await" THEN "move" ELSE "renamed",
                   !.procs[i].res = r.result,
                   !.procs[i].new = newPath,
                   !.procs[i].src = r.src,
                   !.procs[i].dst = r.dst,
                   !.procs[i].rwOld = oldAssetFolder,
                   !.procs[i].rwNew = newAssetFolder]

\* handleDocumentRenameProcess(file, oldPath) up to its first await
HandleDocumentRenameProcess(w, file, oldPath, rnd, pattern) ==
    LET newPath == w.docs[file]
        newAssetFolder == ReplaceMdSuffix(newPath, DEFAULT_ASSETS_SUFFIX)
        i == NewSlot(w)
        w1 == [w EXCEPT !.procs[i] =
                  [NoProc EXCEPT !.kind = "doc", !.file = file, !.old = oldPath]]
    IN  IF IsFolder(w, newAssetFolder) /\ oldPath # newPath
        THEN [w1 EXCEPT !.procs[i].pc = "collide",
                        !.procs[i].src = newAssetFolder,
                        !.procs[i].dst = TempPath(newAssetFolder, w.now)]
        ELSE StartAndDelegate(w1, i, rnd, pattern)

\* handleAssetFolderRename that marks the path while busy and then goes on
HandleAssetFolderRename_NoReturn(w, folderPath, oldPath) ==
    IF folderPath = oldPath THEN w
    ELSE LET w1 == IF w.em.busy
                   THEN MarkPathAsProcessedInTransaction(w, folderPath)
                   ELSE w
             newDocPath == ReplaceFirst(folderPath, DEFAULT_ASSETS_SUFFIX, MD_EXT)
             d == DocAt(w1, newDocPath)
         IN  IF d = "" THEN w1
             ELSE [w1 EXCEPT !.procs[NewSlot(w1)] =
                      [NoProc EXCEPT !.kind = "rw", !.pc = "read", !.file = d,
                                     !.rwOld = oldPath, !.rwNew = folderPath]]

\* handleAssetFolderRename(folder, oldPath); the updateImageReferences it
\* starts is not awaited and runs on from its await of vault.read
HandleAssetFolderRename(w, folderPath, oldPath) ==
    IF folderPath = oldPath THEN w
    ELSE IF w.em.busy THEN MarkPathAsProcessedInTransaction(w, folderPath)
    ELSE LET newDocPath == ReplaceFirst(folderPath, DEFAULT_ASSETS_SUFFIX, MD_EXT)
             d == DocAt(w, newDocPath)
         IN  IF d = "" THEN w
             ELSE [w EXCEPT !.procs[NewSlot(w)] =
                      [NoProc EXCEPT !.kind = "rw", !.pc = "read", !.file = d,
                                     !.rwOld = oldPath, !.rwNew = folderPath]]

\* the vault's rename listener for a folder now at folderPath
FolderRenameListener(w, folderPath, oldPath) ==
    IF folderPath = oldPath THEN w
    ELSE IF IsAssetFolder(folderPath)
    THEN HandleAssetFolderRename(w, folderPath, oldPath)
    ELSE w

\* the vault's rename listener for a markdown file
DocRenameListener(w, file, oldPath, rnd, pattern) ==
    IF w.docs[file] = oldPath THEN w
    ELSE HandleDocumentRenameProcess(w, file, oldPath, rnd, pattern)

----------------------------------------------------------------------------
\* What the claims observe

NoEvt == [kind |-> "none", file |-> "", path |-> NoPath, old |-> NoPath]

HInit ==
    [nEvents |-> 0,        \* renames by the user and redeliveries so far
     nStarts |-> 0,        \* calls of startNewRenameTransaction so far
     nOpen |-> 0,          \* transactions opened and not yet closed
     nTimers |-> 0,        \* timers created so far (the last handle)
     timedOut |-> {},      \* ids of the transactions closed by their timer
     last |-> NoEvt,       \* the event delivered last
     tickDoc |-> NoEvt,    \* the document rename delivered in the current tick
     c1Seen |-> FALSE,     \* its folder's rename was delivered in the same tick
     c1Missed |-> FALSE,   \* ... and the handler found the busy flag clear
     c1Rewrites |-> FALSE, \* ... and started a rewrite of its own
     c1Writes |-> FALSE,   \* ... and that rewrite wrote the document
     c6Seen |-> FALSE,     \* an event came for a path already in processedPaths
     lastDoc |-> NoEvt,    \* the document rename delivered last
     redo |-> [on |-> FALSE, folders |-> {}, cache |-> EmptyCache]]
                           \* the last event was that document rename once
                           \* more: the folders and the cache it found

\* one more event from outside the plugin
Count(w) == [w EXCEPT !.h.nEvents = @ + 1, !.h.redo.on = FALSE]

\* the tick (the synchronous run of the event loop) ends
EndTick(w) == [w EXCEPT !.h.tickDoc = NoEvt]

\* the vault delivers rename(file, oldPath) for a markdown file
DeliverDoc(w, isOn, file, oldPath, rnd, pattern) ==
    LET e == [kind |-> "doc", file |-> file, path |-> w.docs[file], old |-> oldPath]
        w1 == IF isOn THEN DocRenameListener(w, file, oldPath, rnd, pattern) ELSE w
    IN  [w1 EXCEPT !.h.last = e,
                   !.h.lastDoc = e,
                   !.h.tickDoc = IF isOn THEN e ELSE @]

\* the vault delivers rename(folder, oldPath) for a folder
DeliverFolder(w, isOn, folderPath, oldPath) ==
    LET e == [kind |-> "folder", file |-> "", path |-> folderPath, old |-> oldPath]
        w1 == IF isOn THEN FolderRenameListener(w, folderPath, oldPath) ELSE w
        t == w.h.tickDoc
        sameTick == /\ isOn
                    /\ t.kind = "doc"
                    /\ oldPath = ReplaceMdSuffix(t.old, DEFAULT_ASSETS_SUFFIX)
                    /\ folderPath = ReplaceMdSuffix(t.path, DEFAULT_ASSETS_SUFFIX)
        spawned == FreeSlots(w1) # FreeSlots(w)
        w2 == IF spawned /\ sameTick
              THEN [w1 EXCEPT !.procs[NewSlot(w)].tick = TRUE]
              ELSE w1
    IN  [w2 EXCEPT !.h.last = e,
                   !.h.c1Seen = @ \/ sameTick,
                   !.h.c6Seen = @ \/ (isOn /\ folderPath \in w.em.processed),
                   !.h.c1Missed = @ \/ (sameTick /\ ~w.em.busy),
                   !.h.c1Rewrites = @ \/ (sameTick /\ spawned)]

----------------------------------------------------------------------------
\* The coordinator's actions

\* the user renames (or moves) a document, alone or together with its asset
\* folder; the vault delivers the document's event and then, in the same
\* tick, the folder's
UserRenameDoc(d, newPath, withFolder, rnd) ==
    /\ h.nEvents < MaxEvents
    /\ newPath # docs[d]
    /\ ~Exists(World, newPath)
    /\ Cardinality(FreeSlots(World)) >= (IF withFolder THEN 2 ELSE 1)
    /\ LET oldPath == docs[d]
           src == ReplaceMdSuffix(oldPath, DEFAULT_ASSETS_SUFFIX)
           dst == ReplaceMdSuffix(newPath, DEFAULT_ASSETS_SUFFIX)
           w0 == Count([World EXCEPT !.docs[d] = newPath])
       IN  IF withFolder
           THEN /\ IsFolder(World, src)
                /\ ~Exists(World, dst)
                /\ LET w1 == DeliverDoc(MoveTree(w0, src, dst), registered, d,
                                        oldPath, rnd, imageAttachmentLocation)
                   IN  Commit(DeliverFolder(w1, registered, dst, src))
           ELSE Commit(DeliverDoc(w0, registered, d, oldPath, rnd,
                                  imageAttachmentLocation))
    /\ UNCHANGED <<registered, now, imageAttachmentLocation, reg, callLog>>

\* the user renames an asset folder in the file explorer
UserRenameFolder(src, dst) ==
    /\ h.nEvents < MaxEvents
    /\ IsFolder(World, src)
    /\ src # dst
    /\ ~Exists(World, dst)
    /\ FreeSlots(World) # {}
    /\ Commit(DeliverFolder(MoveTree(Count(World), src, dst), registered, dst, src))
    /\ UNCHANGED <<registered, now, imageAttachmentLocation, reg, callLog>>

\* the vault delivers the last folder rename a second time, or the last
\* document rename after the handlers of its first delivery have finished
Redeliver ==
    /\ h.nEvents < MaxEvents
    /\ \/ /\ h.last.kind = "folder"
          /\ IsFolder(World, h.last.path)
          /\ FreeSlots(World) # {}
          /\ Commit(DeliverFolder(Count(World), registered, h.last.path, h.last.old))
       \/ /\ h.lastDoc.kind = "doc"
          /\ docs[h.lastDoc.file] = h.lastDoc.path
          /\ \A i \in Slots : procs[i] = NoProc
          /\ \E rnd \in 0..(RandomIds - 1) :
                LET w == [Count(World) EXCEPT !.h.redo =
                             [on |-> TRUE, folders |-> folders, cache |-> cache]]
                IN  Commit(DeliverDoc(w, registered, h.lastDoc.file,
                                      h.lastDoc.old, rnd, imageAttachmentLocation))
    /\ UNCHANGED <<registered, now, imageAttachmentLocation, reg, callLog>>

\* the move of the colliding target folder settles; the handler goes on
CollideSettle(i, outcome, rnd) ==
    /\ procs[i].kind = "doc" /\ procs[i].pc = "collide"
    /\ LET p == procs[i]
           w0 == EndTick(World)
       IN  /\ outcome \in RenameFileOutcomes(w0, p.src, p.dst)
           /\ LET w1 == IF outcome = "ok"
                        THEN DeliverFolder(MoveTree(w0, p.src, p.dst),
                                           registered, p.dst, p.src)
                        ELSE w0
              IN  Commit(StartAndDelegate(w1, i, rnd, imageAttachmentLocation))
    /\ UNCHANGED <<registered, now, imageAttachmentLocation, reg, callLog>>

\* renameAssetFolder returned without awaiting storage; the handler goes on
RenamedResume(i) ==
    /\ procs[i].kind = "doc" /\ procs[i].pc = "renamed"
    /\ Commit(AfterRenameAssetFolder(EndTick(World), i))
    /\ UNCHANGED <<registered, now, imageAttachmentLocation, reg, callLog>>

\* the move of the asset folder settles: the vault delivers the folder's
\* rename event, renameAssetFolder returns, the handler goes on
MoveSettle(i, outcome) ==
    /\ procs[i].kind = "doc" /\ procs[i].pc = "move"
    /\ LET p == procs[i]
           w0 == EndTick(World)
       IN  /\ outcome \in RenameFileOutcomes(w0, p.src, p.dst)
           /\ FreeSlots(w0) # {}
           /\ LET w1 == IF outcome = "ok"
                        THEN DeliverFolder(MoveTree(w0, p.src, p.dst),
                                           registered, p.dst, p.src)
                        ELSE w0
                  r == RenameAssetFolderResume(w1, p.old, p.new, outcome)
                  w2 == [w1 EXCEPT !.cache = r.cache, !.procs[i].res = r.result]
              IN  Commit(AfterRenameAssetFolder(w2, i))
    /\ UNCHANGED <<registered, now, imageAttachmentLocation, reg, callLog>>

\* vault.read settles inside updateImageReferences
ReadSettle(i, outcome) ==
    /\ procs[i].pc = "read"
    /\ LET p == procs[i]
           w0 == EndTick(World)
           newContent == RewrittenText(content[p.file], p.rwOld, p.rwNew)
       IN  IF outcome = "ok" /\ newContent # content[p.file]
           THEN Commit([w0 EXCEPT !.procs[i].pc = "modify",
                                  !.procs[i].text = newContent])
           ELSE Commit(EndProc(w0, i))
    /\ UNCHANGED <<registered, now, imageAttachmentLocation, reg, callLog>>

\* vault.modify settles inside updateImageReferences
ModifySettle(i, outcome) ==
    /\ procs[i].pc = "modify"
    /\ LET p == procs[i]
           w0 == EndTick(World)
           w1 == IF outcome = "ok"
                 THEN [w0 EXCEPT !.content[p.file] = p.text,
                                 !.h.c1Writes = @ \/ p.tick]
                 ELSE w0
       IN  Commit(EndProc(w1, i))
    /\ UNCHANGED <<registered, now, imageAttachmentLocation, reg, callLog>>

\* the transaction's timer fires: its callback is clearRenameTransaction
TimeoutFires(t) ==
    /\ t \in timers
    /\ t.due <= now
    /\ LET w0 == EndTick(World)
           w1 == [w0 EXCEPT !.timers = @ \ {t},
                            !.h.timedOut = IF w0.em.txnId # NoTxn
                                           THEN @ \cup {w0.em.txnId} ELSE @]
       IN  Commit(ClearRenameTransaction(w1))
    /\ UNCHANGED <<registered, now, imageAttachmentLocation, reg, callLog>>

\* time passes
Tick ==
    /\ now < MaxTicks * TickMs \/ \E t \in timers : t.due > now
    /\ now' = now + TickMs
    /\ Commit(EndTick(World))
    /\ UNCHANGED <<registered, imageAttachmentLocation, reg, callLog>>

\* EventManager.cleanup (plugin unload)
Cleanup ==
    /\ registered
    /\ registered' = FALSE
    /\ Commit(ClearRenameTransaction(EndTick(World)))
    /\ UNCHANGED <<now, imageAttachmentLocation, reg, callLog>>

RegIdle == [pc |-> "idle", old |-> NoPath, new |-> NoPath,
            preOld |-> FALSE, preNew |-> FALSE]

ReferenceText == <<"!", "[", "]", "(", "a", ASSETS_FOLDER_SUFFIX, SEP, "n", ")">>

Init ==
    /\ docs = [d \in DocIds |-> IF d = "d1" THEN PathA ELSE PathC]
    /\ folders \in SUBSET AssetFolderPaths
    /\ files = {}
    /\ content = [d \in DocIds |-> ReferenceText]
    /\ cache = EmptyCache
    /\ em = EmInit
    /\ timers = {}
    /\ procs = [i \in Slots |-> NoProc]
    /\ paused = FALSE
    /\ feTxn = NoTxn
    /\ registered = TRUE
    /\ now = 0
    /\ imageAttachmentLocation = DefaultPattern
    /\ h = HInit
    /\ reg = RegIdle
    /\ callLog = <<>>

Rnds == 0..(RandomIds - 1)

Outcomes == {"ok", "exists", "error"}

Next ==
    \/ \E p \in DocPaths, b \in BOOLEAN, rnd \in Rnds :
          UserRenameDoc("d1", p, b, rnd)
    \/ \E src \in AssetFolderPaths, dst \in AssetFolderPaths : UserRenameFolder(src, dst)
    \/ Redeliver
    \/ \E i \in Slots, o \in Outcomes, rnd \in Rnds : CollideSettle(i, o, rnd)
    \/ \E i \in Slots : RenamedResume(i)
    \/ \E i \in Slots, o \in Outcomes : MoveSettle(i, o)
    \/ \E i \in Slots, o \in {"ok", "error"} : ReadSettle(i, o)
    \/ \E i \in Slots, o \in {"ok", "error"} : ModifySettle(i, o)
    \/ \E t \in timers : TimeoutFires(t)
    \/ Tick
    \/ Cleanup

Spec == Init /\ [][Next]_vars

\* the vault in which the document has its asset folder
InitLive ==
    /\ Init
    /\ folders = {AssetFolderOf(PathA)}

\* the timers run, and time passes while one is pending; nothing else is
\* promised: a storage call may never settle, a handler may never resume
SpecLive ==
    /\ InitLive
    /\ [][Next]_vars
    /\ WF_vars(Tick)
    /\ WF_vars(\E t \in timers : TimeoutFires(t))

----------------------------------------------------------------------------
\* Claims about the rename coordinator (EventManager)

\* C1: when the rename of a document a -> b and the rename of its asset
\* folder fA -> fB are delivered in this order in one tick, the folder
\* handler finds the busy flag set, starts no rewrite and nothing is written.
C1_SameTickFolderEventSeesBusy ==
    h.c1Seen => ~h.c1Missed /\ ~h.c1Rewrites /\ ~h.c1Writes

\* C4: an open transaction has its timer due 10 s after it was opened; when
\* the timer fires the transaction is closed; a transaction opened afterwards
\* never has the id of one that timed out.
C4_TimeoutClosesAndNextIdIsNew ==
    /\ [](em.txnId # NoTxn =>
            /\ em.txnId \notin h.timedOut
            /\ \A t \in timers : t.due = em.txnId[1] + TRANSACTION_TIMEOUT_MS)
    /\ [][\A t \in timers : TimeoutFires(t) =>
            /\ em'.txnId = NoTxn
            /\ ~em'.busy
            /\ em'.processed = {}
            /\ timers' = {}
            /\ (em.txnId # NoTxn => InSeq(em'.done, em.txnId))]_vars

C4_Witness ==
    /\ h.timedOut # {}
    /\ em.txnId # NoTxn
    /\ h.nStarts = 2

\* C5: at most one transaction is open at any time, and a timer is pending
\* exactly when a transaction is open (it is that transaction's timer).
C5_OneTransactionOneTimer ==
    /\ h.nOpen = (IF em.txnId # NoTxn THEN 1 ELSE 0)
    /\ Cardinality(timers) = (IF em.txnId # NoTxn THEN 1 ELSE 0)
    /\ em.busy = (em.txnId # NoTxn)
    /\ (em.timeout # NoTimer) = (em.txnId # NoTxn)
    /\ \A t \in timers : t.id = em.timeout

C5_Witness ==
    /\ procs[1].kind = "doc" /\ procs[1].pc = "move"
    /\ procs[2].kind = "doc" /\ procs[2].pc = "renamed"
    /\ Cardinality(timers) = 1
    /\ em.txnId = procs[2].txn
    /\ procs[1].txn # procs[2].txn

\* C6: a rename event for a path that is already in processedPaths changes
\* nothing: no transaction state, no registry binding, no document, no
\* function in flight.
C6_ProcessedPathEventIsNoOp ==
    [][(h.nEvents' # h.nEvents /\ h.last'.path \in em.processed) =>
          UNCHANGED <<content, cache, em, timers, procs, paused, feTxn>>]_vars

C6_Witness ==
    /\ h.c6Seen
    /\ h.last.kind = "folder"
    /\ h.last.path \in em.processed
    /\ h.nEvents = 2
    /\ \E i \in Slots : procs[i].kind = "doc" /\ procs[i].pc = "read"

C8_OpenedTransactionIsClosed ==
    (em.txnId # NoTxn) ~> (em.txnId = NoTxn)

C8_Witness ==
    /\ h.timedOut # {}
    /\ em.txnId = NoTxn
    /\ \E i \in Slots : procs[i].kind = "doc" /\ procs[i].txn \in h.timedOut

----------------------------------------------------------------------------
\* A component that calls AssetManager.renameAssetFolder directly and awaits
\* each call before it makes the next one

\* the caches the registry can hold: every binding was inserted as
\* (document path -> its asset folder path); the folder may be gone since
ReachableCaches ==
    {[p \in S |-> AssetFolderOf(p)] : S \in SUBSET DocPaths}

CoordinatorAtRest ==
    /\ em = EmInit
    /\ timers = {}
    /\ procs = [i \in Slots |-> NoProc]
    /\ paused = FALSE
    /\ feTxn = NoTxn
    /\ registered = FALSE
    /\ now = 0
    /\ imageAttachmentLocation = DefaultPattern
    /\ h = HInit

RegInit ==
    /\ docs = [d \in DocIds |-> IF d = "d1" THEN PathB ELSE PathC]
    /\ folders \in SUBSET AssetFolderPaths
    /\ files \in SUBSET {AssetFolderOf(PathB)}
    /\ files \cap folders = {}
    /\ content = [d \in DocIds |-> <<>>]
    /\ cache \in ReachableCaches
    /\ CoordinatorAtRest
    /\ reg = RegIdle
    /\ callLog = <<>>

\* the call runs to its return, or to its await of renameFile
RegCall(old, new) ==
    /\ reg.pc = "idle"
    /\ Len(callLog) < MaxCalls
    /\ LET r == RenameAssetFolderSync(World, old, new)
           pre == [pc |-> "move", old |-> old, new |-> new,
                   preOld |-> IsFolder(World, r.src),
                   preNew |-> Exists(World, r.dst)]
       IN  IF r.k = "return"
           THEN /\ cache' = r.cache
                /\ reg' = RegIdle
                /\ callLog' = Append(callLog,
                       [old |-> old, new |-> new, preOld |-> pre.preOld,
                        preNew |-> pre.preNew, invoked |-> FALSE,
                        outcome |-> "none", result |-> r.result,
                        cacheBefore |-> cache, cacheAfter |-> r.cache])
           ELSE /\ reg' = pre
                /\ UNCHANGED <<cache, callLog>>
    /\ UNCHANGED <<docs, folders, files, content, em, timers, procs, paused,
                   feTxn, registered, now, imageAttachmentLocation, h>>

\* renameFile settles: the folder is moved, or the storage layer rejects
RegSettle(outcome) ==
    /\ reg.pc = "move"
    /\ LET src == AssetFolderOf(reg.old)
           dst == AssetFolderOf(reg.new)
           w1 == IF outcome = "ok" THEN MoveTree(World, src, dst) ELSE World
           r == RenameAssetFolderResume(w1, reg.old, reg.new, outcome)
       IN  /\ outcome \in RenameFileOutcomes(World, src, dst)
           /\ folders' = w1.folders
           /\ files' = w1.files
           /\ docs' = w1.docs
           /\ cache' = r.cache
           /\ callLog' = Append(callLog,
                  [old |-> reg.old, new |-> reg.new, preOld |-> reg.preOld,
                   preNew |-> reg.preNew, invoked |-> TRUE,
                   outcome |-> outcome, result |-> r.result,
                   cacheBefore |-> cache, cacheAfter |-> r.cache])
    /\ reg' = RegIdle
    /\ UNCHANGED <<content, em, timers, procs, paused, feTxn, registered, now,
                   imageAttachmentLocation, h>>

\* while renameFile is awaited, somebody else creates the target folder
RegTargetAppears ==
    /\ reg.pc = "move"
    /\ ~Exists(World, AssetFolderOf(reg.new))
    /\ folders' = folders \cup {AssetFolderOf(reg.new)}
    /\ UNCHANGED <<docs, files, content, cache, em, timers, procs, paused, feTxn,
                   registered, now, imageAttachmentLocation, h, reg, callLog>>

RegNext ==
    \/ \E old \in DocPaths : \E new \in DocPaths \ {old} : RegCall(old, new)
    \/ \E outcome \in Outcomes : RegSettle(outcome)
    \/ RegTargetAppears

SpecRegistry == RegInit /\ [][RegNext]_vars

----------------------------------------------------------------------------
\* Claims about AssetManager.renameAssetFolder (SpecRegistry)

\* C2 (as claimed): renameAssetFolder(a, b) called twice in a row, starting with
\* a's folder present and with no storage failure, returns true both times and
\* leaves the binding (b -> folder of b) and no binding for a.
C2_RenameTwiceSucceedsTwice ==
    \A i \in 1..(Len(callLog) - 1) :
        LET e1 == callLog[i]
            e2 == callLog[i + 1]
        IN  (/\ e1.old = e2.old /\ e1.new = e2.new
             /\ e1.preOld
             /\ e1.outcome # "error" /\ e2.outcome # "error")
            => /\ e1.result /\ e2.result
               /\ e2.new \in DOMAIN e2.cacheAfter
               /\ e2.cacheAfter[e2.new] = AssetFolderOf(e2.new)
               /\ e2.old \notin DOMAIN e2.cacheAfter

\* C3: renameAssetFolder(old, new), old # new, called when old's folder is a
\* folder and the path resolved for new exists: returns true, never invokes
\* renameFile, and leaves (new -> folder of new) and no entry for old.
C3_ExistingTargetIsSuccessWithoutMove ==
    \A i \in 1..Len(callLog) :
        LET e == callLog[i]
        IN  (e.preOld /\ e.preNew)
            => /\ e.result
               /\ ~e.invoked
               /\ e.new \in DOMAIN e.cacheAfter
               /\ e.cacheAfter[e.new] = AssetFolderOf(e.new)
               /\ e.old \notin DOMAIN e.cacheAfter

\* C3 witness: such a call was made with old bound and new unbound before it,
\* once with a folder and once with a file at the target path
C3_Witness ==
    /\ Len(callLog) = 2
    /\ callLog[1].preOld /\ callLog[1].preNew /\ callLog[1].result
    /\ callLog[2].preOld /\ callLog[2].preNew /\ callLog[2].result
    /\ AssetFolderOf(callLog[1].new) \in files
    /\ AssetFolderOf(callLog[2].new) \in folders

----------------------------------------------------------------------------
\* DocumentManager.updateImageReference: the six replacement rules, applied
\* in order to the document's text. A text is a sequence of atoms: the
\* punctuation the rules look at, and names.

NL == "\n"

QUOTES == {"\"", "'"}

\* the flag i: atoms are compared without regard to case
Fold(a) == IF a = "X" THEN "x" ELSE IF a = "<IMG" THEN "<img" ELSE a

At(text, j, a) == j >= 1 /\ j <= Len(text) /\ Fold(text[j]) = Fold(a)

AtOneOf(text, j, S) == j >= 1 /\ j <= Len(text) /\ text[j] \in S

\* the literal (escaped) string lit stands in text at j
OccursAt(text, j, lit) ==
    /\ j >= 1
    /\ j + Len(lit) - 1 <= Len(text)
    /\ \A k \in 1..Len(lit) : Fold(text[j + k - 1]) = Fold(lit[k])

\* text[a..b] holds no atom of S
NoneIn(text, a, b, S) ==
    \A j \in a..b : j >= 1 /\ j <= Len(text) /\ text[j] \notin S

\* the first position from j on that holds atom a, 0 if there is none:
\* where a greedy [^a]* followed by a ends
FirstAt(text, j, a) ==
    LET c == {k \in j..Len(text) : text[k] = a}
    IN  IF c = {} THEN 0 ELSE CHOOSE k \in c : \A m \in c : k <= m

Min(S) == CHOOSE k \in S : \A m \in S : k <= m

Max(S) == CHOOSE k \in S : \A m \in S : k >= m

NoMatch == [ok |-> FALSE, at |-> 0, end |-> 0]

\* rule 1, (!\[.*?\]\()OLD([^)]*)\) matched at i: .*? takes the fewest atoms
MatchMarkdownFull(text, i, lit) ==
    LET ks == {k \in 0..Len(text) :
                  /\ At(text, i + 2 + k, "]")
                  /\ At(text, i + 3 + k, "(")
                  /\ OccursAt(text, i + 4 + k, lit)
                  /\ NoneIn(text, i + 2, i + 1 + k, {NL})
                  /\ FirstAt(text, i + 4 + k + Len(lit), ")") # 0}
    IN  IF At(text, i, "!") /\ At(text, i + 1, "[") /\ ks # {}
        THEN [ok |-> TRUE, at |-> i + 4 + Min(ks),
              end |-> FirstAt(text, i + 4 + Min(ks) + Len(lit), ")")]
        ELSE NoMatch

\* rule 4, (!\[.*?\]\()([^)]*)NAME([^)]*)\) matched at i: .*? takes the
\* fewest atoms, the first [^)]* the most
MatchMarkdownName(text, i, lit) ==
    LET head(k) ==
            /\ At(text, i + 2 + k, "]")
            /\ At(text, i + 3 + k, "(")
            /\ NoneIn(text, i + 2, i + 1 + k, {NL})
        tail(k, p) ==
            /\ OccursAt(text, i + 4 + k + p, lit)
            /\ NoneIn(text, i + 4 + k, i + 3 + k + p, {")"})
            /\ FirstAt(text, i + 4 + k + p + Len(lit), ")") # 0
        ks == {k \in 0..Len(text) :
                  head(k) /\ \E p \in 0..Len(text) : tail(k, p)}
    IN  IF At(text, i, "!") /\ At(text, i + 1, "[") /\ ks # {}
        THEN LET k == Min(ks)
                 p == Max({q \in 0..Len(text) : tail(k, q)})
             IN  [ok |-> TRUE, at |-> i + 4 + k + p,
                  end |-> FirstAt(text, i + 4 + k + p + Len(lit), ")")]
        ELSE NoMatch

\* rule 2, (!\[\[)OLD(\]\]) matched at i
MatchWikiFull(text, i, lit) ==
    IF /\ At(text, i, "!") /\ At(text, i + 1, "[") /\ At(text, i + 2, "[")
       /\ OccursAt(text, i + 3, lit)
       /\ At(text, i + 3 + Len(lit), "]") /\ At(text, i + 4 + Len(lit), "]")
    THEN [ok |-> TRUE, at |-> i + 3, end |-> i + 4 + Len(lit)]
    ELSE NoMatch

\* rule 5, (!\[\[)([^\]]*)NAME(\]\]) matched at i: [^\]]* takes the most
MatchWikiName(text, i, lit) ==
    LET ps == {p \in 0..Len(text) :
                  /\ OccursAt(text, i + 3 + p, lit)
                  /\ At(text, i + 3 + p + Len(lit), "]")
                  /\ At(text, i + 4 + p + Len(lit), "]")
                  /\ NoneIn(text, i + 3, i + 2 + p, {"]"})}
    IN  IF At(text, i, "!") /\ At(text, i + 1, "[") /\ At(text, i + 2, "[")
           /\ ps # {}
        THEN [ok |-> TRUE, at |-> i + 3 + Max(ps),
              end |-> i + 4 + Max(ps) + Len(lit)]
        ELSE NoMatch

\* rule 3, (<img[^>]*src=["'])OLD(["'][^>]*>) matched at i: the first
\* [^>]* takes the most
MatchImgFull(text, i, lit) ==
    LET gs == {g \in 0..Len(text) :
                  /\ At(text, i + 1 + g, "src=")
                  /\ AtOneOf(text, i + 2 + g, QUOTES)
                  /\ OccursAt(text, i + 3 + g, lit)
                  /\ AtOneOf(text, i + 3 + g + Len(lit), QUOTES)
                  /\ NoneIn(text, i + 1, i + g, {">"})
                  /\ FirstAt(text, i + 4 + g + Len(lit), ">") # 0}
    IN  IF At(text, i, "<img") /\ gs # {}
        THEN [ok |-> TRUE, at |-> i + 3 + Max(gs),
              end |-> FirstAt(text, i + 4 + Max(gs) + Len(lit), ">")]
        ELSE NoMatch

\* rule 6, (<img[^>]*src=["'])([^"']*)NAME(["'][^>]*>) matched at i: both
\* [^...]* take the most, the first one first
MatchImgName(text, i, lit) ==
    LET head(g) ==
            /\ At(text, i + 1 + g, "src=")
            /\ AtOneOf(text, i + 2 + g, QUOTES)
            /\ NoneIn(text, i + 1, i + g, {">"})
        tail(g, p) ==
            /\ OccursAt(text, i + 3 + g + p, lit)
            /\ AtOneOf(text, i + 3 + g + p + Len(lit), QUOTES)
            /\ NoneIn(text, i + 3 + g, i + 2 + g + p, QUOTES)
            /\ FirstAt(text, i + 4 + g + p + Len(lit), ">") # 0
        gs == {g \in 0..Len(text) :
                  head(g) /\ \E p \in 0..Len(text) : tail(g, p)}
    IN  IF At(text, i, "<img") /\ gs # {}
        THEN LET g == Max(gs)
                 p == Max({q \in 0..Len(text) : tail(g, q)})
             IN  [ok |-> TRUE, at |-> i + 3 + g + p,
                  end |-> FirstAt(text, i + 4 + g + p + Len(lit), ">")]
        ELSE NoMatch

RuleMatch(rule, text, i, lit) ==
    CASE rule = 1 -> MatchMarkdownFull(text, i, lit)
      [] rule = 2 -> MatchWikiFull(text, i, lit)
      [] rule = 3 -> MatchImgFull(text, i, lit)
      [] rule = 4 -> MatchMarkdownName(text, i, lit)
      [] rule = 5 -> MatchWikiName(text, i, lit)
      [] rule = 6 -> MatchImgName(text, i, lit)

\* text.replace(rule, replacement) with the flag g, from position i on: the
\* leftmost match has its OLD (or NAME) replaced, the groups around it are
\* copied, and the search goes on behind the match
RECURSIVE ReplaceRule(_, _, _, _, _)
ReplaceRule(rule, text, i, lit, by) ==
    IF i > Len(text) THEN <<>>
    ELSE LET m == RuleMatch(rule, text, i, lit)
         IN  IF m.ok
             THEN SubSeq(text, i, m.at - 1) \o by
                  \o SubSeq(text, m.at + Len(lit), m.end)
                  \o ReplaceRule(rule, text, m.end + 1, lit, by)
             ELSE <<text[i]>> \o ReplaceRule(rule, text, i + 1, lit, by)

\* the loop over the replacement rules: 1-3 with the full paths, 4-6 with the
\* file names
RECURSIVE ApplyRules(_, _, _, _)
ApplyRules(rule, text, oldImagePath, newImagePath) ==
    IF rule > 6 THEN text
    ELSE LET lit == IF rule <= 3 THEN oldImagePath ELSE BaseName(oldImagePath)
             by == IF rule <= 3 THEN newImagePath ELSE BaseName(newImagePath)
         IN  ApplyRules(rule + 1, ReplaceRule(rule, text, 1, lit, by),
                        oldImagePath, newImagePath)

----------------------------------------------------------------------------
\* A caller of updateImageReference: an image is moved or renamed, the
\* document that shows it is rewritten, and the rename may be taken back

ImageD == <<"d", SEP, "x", ".png">>

ImageE == <<"e", SEP, "x", ".png">>

ImageY == <<"d", SEP, "y", ".png">>

ImageYX == <<"d", SEP, "y", "x", ".png">>

ImagePaths == {ImageD, ImageE, ImageY, ImageYX}

\* the three syntaxes the replacement rules look for
Markdown(alt, target) == <<"!", "[">> \o alt \o <<"]", "(">> \o target \o <<")">>

Wiki(target) == <<"!", "[", "[">> \o target \o <<"]", "]">>

WikiAlias(target, cap) ==
    <<"!", "[", "[">> \o target \o <<"|">> \o cap \o <<"]", "]">>

Img(tag, quote, target) ==
    <<tag, " ", "src=", quote>> \o target \o <<quote, ">">>

\* the references a document may hold to the image ImageD: by its path or by
\* its file name, in either case of the letters
MarkdownReferences ==
    {Markdown(<<"alt">>, ImageD), Markdown(<<"alt">>, BaseName(ImageD)),
     Markdown(<<>>, <<"d", SEP, "X", ".png">>)}

WikiReferences ==
    {Wiki(ImageD), Wiki(BaseName(ImageD)),
     WikiAlias(ImageD, <<"cap">>), WikiAlias(BaseName(ImageD), <<"cap">>)}

ImgReferences ==
    {Img("<img", "\"", ImageD), Img("<img", "\"", BaseName(ImageD)),
     Img("<IMG", "'", ImageD)}

RECURSIVE Lines(_)
Lines(refs) ==
    IF Len(refs) = 1 THEN refs[1]
    ELSE refs[1] \o <<NL>> \o Lines(Tail(refs))

\* a document holds one reference, or one of each syntax
Documents ==
    {<<r>> : r \in MarkdownReferences \cup WikiReferences \cup ImgReferences}
    \cup (MarkdownReferences \X WikiReferences \X ImgReferences)

RwInit ==
    /\ docs = [d \in DocIds |-> IF d = "d1" THEN PathA ELSE PathC]
    /\ folders = {}
    /\ files = {}
    /\ \E refs \in Documents :
          content = [d \in DocIds |-> IF d = "d1" THEN Lines(refs) ELSE <<>>]
    /\ cache = EmptyCache
    /\ CoordinatorAtRest
    /\ reg = RegIdle
    /\ callLog = <<>>

\* updateImageReference(file, oldImagePath, newImagePath); outcome is that
\* of the storage calls (vault.read, vault.modify), an error is caught
UpdateImageReference(file, oldImagePath, newImagePath, outcome) ==
    /\ Len(callLog) < MaxCalls
    /\ callLog # <<>> =>
          {oldImagePath, newImagePath} = {callLog[1].old, callLog[1].new}
    /\ LET newContent == ApplyRules(1, content[file], oldImagePath, newImagePath)
           changed == newContent # content[file]
           written == outcome = "ok" /\ changed
       IN  /\ content' = IF written THEN [content EXCEPT ![file] = newContent]
                         ELSE content
           /\ callLog' = Append(callLog,
                  [old |-> oldImagePath, new |-> newImagePath,
                   before |-> content[file], after |-> content'[file],
                   outcome |-> outcome, result |-> written])
    /\ UNCHANGED <<docs, folders, files, cache, em, timers, procs, paused, feTxn,
                   registered, now, imageAttachmentLocation, h, reg>>

RwNext ==
    \E old \in ImagePaths : \E new \in ImagePaths \ {old} :
        \E outcome \in {"ok", "error"} :
            UpdateImageReference("d1", old, new, outcome)

SpecRewrite == RwInit /\ [][RwNext]_vars

----------------------------------------------------------------------------
\* Claims about DocumentManager.updateImageReference

C9Document(target) ==
    Lines(<<Markdown(<<"alt">>, target), WikiAlias(target, <<"cap">>),
            Img("<img", "\"", target)>>)

\* C9: in a document that holds ![alt](old), ![[old|cap]] and
\* <img src="old">, rewriting old -> new updates all three references, and
\* rewriting new -> old afterwards gives back the original text.
C9_RewriteRoundTrip ==
    \A i \in 1..Len(callLog) :
        LET e == callLog[i]
        IN  (e.outcome = "ok" /\ e.before = C9Document(e.old)) =>
                /\ e.after = C9Document(e.new)
                /\ (/\ i < Len(callLog)
                    /\ callLog[i + 1].old = e.new
                    /\ callLog[i + 1].new = e.old
                    /\ callLog[i + 1].outcome = "ok")
                       => callLog[i + 1].after = e.before

----------------------------------------------------------------------------
\* A caller of AssetManager.getExpectedAssetFolderPathForDocPath under each
\* naming pattern of the settings

Patterns ==
    {<<>>,
     DefaultPattern,
     <<PLACEHOLDER, "_assets">>,
     <<"attachments", SEP, PLACEHOLDER>>,
     <<SEP, "global_assets", SEP, PLACEHOLDER>>}

ResolveInit ==
    /\ imageAttachmentLocation \in Patterns
    /\ docs \in {f \in [DocIds -> DocPaths] : f["d1"] # f["d2"]}
    /\ folders = {}
    /\ files = {}
    /\ content = [d \in DocIds |-> <<>>]
    /\ cache = EmptyCache
    /\ em = EmInit
    /\ timers = {}
    /\ procs = [i \in Slots |-> NoProc]
    /\ paused = FALSE
    /\ feTxn = NoTxn
    /\ registered = FALSE
    /\ now = 0
    /\ h = HInit
    /\ reg = RegIdle
    /\ callLog = <<>>

\* getExpectedAssetFolderPathForDocPath(docPath) for the document d
Resolve(d) ==
    /\ Len(callLog) < MaxCalls
    /\ callLog' = Append(callLog,
           [pattern |-> imageAttachmentLocation, doc |-> docs[d],
            result |-> GetExpectedAssetFolderPathForDocPath(
                           imageAttachmentLocation, docs[d])])
    /\ UNCHANGED <<docs, folders, files, content, cache, em, timers, procs,
                   paused, feTxn, registered, now, imageAttachmentLocation, h, reg>>

ResolveNext == \E d \in DocIds : Resolve(d)

SpecResolve == ResolveInit /\ [][ResolveNext]_vars

----------------------------------------------------------------------------
\* Claims about the resolver

AttachmentsPattern == <<"attachments", SEP, PLACEHOLDER>>

\* C10: for a pattern that does not start with "/", the resolved path is the
\* pattern with ${filename} replaced by the document's basename, joined under
\* the document's parent path, and without any prefix when the parent is the
\* vault root: attachments/${filename} gives F/attachments/a for F/a.md and
\* attachments/a for a.md.
C10_NonRootedPatternJoinsUnderParent ==
    \A i \in 1..Len(callLog) :
        LET e == callLog[i]
            parent == ParentPath(e.doc)
            prefix == IF parent = <<>> THEN <<>> ELSE parent \o <<SEP>>
        IN  /\ (e.pattern # <<>> /\ Head(e.pattern) # SEP) =>
                   e.result = prefix \o Substitute(e.pattern, DocBaseName(e.doc))
            /\ (e.pattern = AttachmentsPattern /\ e.doc = PathC) =>
                   e.result = <<"F", SEP, "attachments", SEP, "a">>
            /\ (e.pattern = AttachmentsPattern /\ e.doc = PathA) =>
                   e.result = <<"attachments", SEP, "a">>

C10_Witness ==
    /\ imageAttachmentLocation = AttachmentsPattern
    /\ \E i \in 1..Len(callLog) : callLog[i].doc = PathA
    /\ \E i \in 1..Len(callLog) : callLog[i].doc = PathC

GlobalPattern == <<SEP, "global_assets", SEP, PLACEHOLDER>>

\* C11: for a pattern that starts with "/", the resolved path is relative to
\* the vault root: it is the substituted pattern without its leading "/",
\* whatever the document's parent path is (/global_assets/${filename} gives
\* global_assets/a for F/a.md and for a.md), and it starts with no "/".
C11_RootedPatternIgnoresParent ==
    \A i \in 1..Len(callLog) :
        LET e == callLog[i]
        IN  (e.pattern # <<>> /\ Head(e.pattern) = SEP) =>
                /\ e.result = Tail(Substitute(e.pattern, DocBaseName(e.doc)))
                /\ Head(e.result) # SEP
                /\ (e.pattern = GlobalPattern /\ DocBaseName(e.doc) = <<"a">>) =>
                       e.result = <<"global_assets", SEP, "a">>

C11_Witness ==
    /\ imageAttachmentLocation = GlobalPattern
    /\ \E i \in 1..Len(callLog) :
          callLog[i].doc = PathC /\ callLog[i].result = <<"global_assets", SEP, "a">>
    /\ \E i \in 1..Len(callLog) :
          callLog[i].doc = PathA /\ callLog[i].result = <<"global_assets", SEP, "a">>

\* C12: for the empty pattern the resolved path is the document's basename
\* followed by __assets, next to the document: F/a.md gives F/a__assets and
\* a.md gives a__assets.
C12_EmptyPatternFallsBackToSibling ==
    \A i \in 1..Len(callLog) :
        LET e == callLog[i]
            parent == ParentPath(e.doc)
            prefix == IF parent = <<>> THEN <<>> ELSE parent \o <<SEP>>
        IN  e.pattern = <<>> =>
                /\ e.result = prefix \o DocBaseName(e.doc) \o <<"__assets">>
                /\ e.doc = PathC => e.result = <<"F", SEP, "a", "__assets">>

C12_Witness ==
    /\ imageAttachmentLocation = <<>>
    /\ \E i \in 1..Len(callLog) :
          callLog[i].doc = PathC /\ callLog[i].result = <<"F", SEP, "a", "__assets">>

\* C13: renameAssetFolder always ends with a boolean: false when the old
\* folder does not exist as a folder (no storage call is made), true when the
\* move fails because the destination already exists (the cache then holds
\* new -> folder and nothing for old), false for any other storage failure;
\* a call that returns false leaves the cache as it was.
C13_FailuresAreReturnValues ==
    \A i \in 1..Len(callLog) :
        LET e == callLog[i]
        IN  /\ e.result \in BOOLEAN
            /\ ~e.preOld => (e.result = FALSE /\ ~e.invoked)
            /\ (e.invoked /\ e.outcome = "exists") =>
                   /\ e.result = TRUE
                   /\ e.new \in DOMAIN e.cacheAfter
                   /\ e.cacheAfter[e.new] = AssetFolderOf(e.new)
                   /\ e.old \notin DOMAIN e.cacheAfter
            /\ (e.invoked /\ e.outcome = "error") => e.result = FALSE
            /\ e.result = FALSE => e.cacheAfter = e.cacheBefore

C13_Witness ==
    /\ Len(callLog) = 3
    /\ ~callLog[1].preOld /\ callLog[1].result = FALSE
    /\ callLog[2].invoked /\ callLog[2].outcome = "error"
    /\ callLog[2].result = FALSE /\ callLog[2].cacheBefore # EmptyCache
    /\ callLog[3].invoked /\ callLog[3].outcome = "exists"
    /\ callLog[3].result = TRUE

-----------------------------------------------------------------------------
\* Direct callers of createAssetFolder, getAssetFolderForDocument and
\* detectAssetFolders (the paste handler, the views)

\* a document path no document is stored at
PathDeep == <<"G", SEP, "H", SEP, "x", MD_EXT>>

CreateDocPaths == {PathA, PathC, PathDeep}

\* assetPath.split('/')
RECURSIVE Split(_)
Split(p) ==
    LET i == CHOOSE k \in 1..(Len(p) + 1) :
                 /\ k = Len(p) + 1 \/ p[k] = SEP
                 /\ \A j \in 1..(k - 1) : p[j] # SEP
    IN  IF i = Len(p) + 1 THEN <<p>>
        ELSE <<SubSeq(p, 1, i - 1)>> \o Split(SubSeq(p, i + 1, Len(p)))

\* currentPath after the loop body has run for the parts 1..i
RECURSIVE CurrentPath(_, _)
CurrentPath(parts, i) ==
    IF i = 0 THEN <<>>
    ELSE LET before == CurrentPath(parts, i - 1)
         IN  before \o (IF before # <<>> THEN <<SEP>> ELSE <<>>) \o parts[i]

\* every folder has its parent folder
ClosedUnderParents(fs) ==
    \A f \in fs :
        LET parts == Split(f)
        IN  \A i \in 1..(Len(parts) - 1) : CurrentPath(parts, i) \in fs

\* vault.createFolder(p): the storage layer rejects what exists already and
\* what lies below a file; otherwise the folder is made or the write fails
CreateFolderOutcomes(w, p) ==
    LET parts == Split(p)
    IN  IF Exists(w, p) THEN {"exists"}
        ELSE IF \E i \in 1..(Len(parts) - 1) : IsFile(w, CurrentPath(parts, i))
        THEN {"error"}
        ELSE {"ok", "error"}

\* the for loop of createAssetFolder from part i on, up to its next await or
\* to the return
RECURSIVE CreateAssetFolderLoop(_, _, _)
CreateAssetFolderLoop(w, docPath, i) ==
    LET assetPath == AssetFolderOf(docPath)
        parts == Split(assetPath)
    IN  IF i > Len(parts)
        THEN [k |-> "return", cache |-> CacheSet(w.cache, docPath, assetPath),
              result |-> assetPath, i |-> i, path |-> NoPath]
        ELSE IF i = Len(parts)
        THEN [k |-> "await", cache |-> w.cache, result |-> NoPath,
              i |-> i, path |-> assetPath]
        ELSE IF ~Exists(w, CurrentPath(parts, i))
        THEN [k |-> "await", cache |-> w.cache, result |-> NoPath,
              i |-> i, path |-> CurrentPath(parts, i)]
        ELSE CreateAssetFolderLoop(w, docPath, i + 1)

\* createAssetFolder up to its first await or to its return
CreateAssetFolder(w, docPath) ==
    IF IsFolder(w, AssetFolderOf(docPath))
    THEN [k |-> "return", cache |-> w.cache, result |-> AssetFolderOf(docPath),
          i |-> 0, path |-> NoPath]
    ELSE CreateAssetFolderLoop(w, docPath, 1)

GetAssetFolderForDocument_NoExistenceCheck(w, docPath) ==
    IF docPath \notin DOMAIN w.cache
    THEN [cache |-> CacheSet(w.cache, docPath, AssetFolderOf(docPath)),
          result |-> AssetFolderOf(docPath)]
    ELSE [cache |-> w.cache, result |-> w.cache[docPath]]

\* getAssetFolderForDocument; NoPath stands for null
GetAssetFolderForDocument(w, docPath) ==
    IF docPath \notin DOMAIN w.cache
    THEN IF IsFolder(w, AssetFolderOf(docPath))
         THEN [cache |-> CacheSet(w.cache, docPath, AssetFolderOf(docPath)),
               result |-> AssetFolderOf(docPath)]
         ELSE [cache |-> w.cache, result |-> NoPath]
    ELSE [cache |-> w.cache, result |-> w.cache[docPath]]

\* detectAssetFolders: the cache rebuilt from the folders that end in the
\* suffix and whose document is a file
DetectAssetFolders(w) ==
    LET found == {f \in w.folders :
                     /\ Len(f) > 0 /\ Last(f) = ASSETS_FOLDER_SUFFIX
                     /\ IsFile(w, ReplaceFirst(f, ASSETS_FOLDER_SUFFIX, MD_EXT))}
        docOf(f) == ReplaceFirst(f, ASSETS_FOLDER_SUFFIX, MD_EXT)
    IN  [p \in {docOf(f) : f \in found} |->
            CHOOSE f \in found : docOf(f) = p]

CreateInit ==
    /\ docs = [d \in DocIds |-> IF d = "d1" THEN PathA ELSE PathC]
    /\ folders \in {fs \in SUBSET ({<<"F">>, <<"G">>, <<"G", SEP, "H">>}
                                   \cup {AssetFolderOf(p) : p \in CreateDocPaths}) :
                       <<"F">> \in fs /\ ClosedUnderParents(fs)}
    /\ files \in SUBSET {AssetFolderOf(PathA), <<"G">>}
    /\ files \cap folders = {}
    /\ content = [d \in DocIds |-> <<>>]
    /\ cache \in {c \in ReachableCaches : \A p \in DOMAIN c : c[p] \in folders}
    /\ CoordinatorAtRest
    /\ reg = RegIdle
    /\ callLog = <<>>

\* what a caller of createAssetFolder can observe of one call
CreateEntry(docPath, k, result, created, pre, cacheAfter, foldersAfter) ==
    [op |-> "create", doc |-> docPath, k |-> k, result |-> result,
     docExists |-> DocAt(World, docPath) # "",
     hit |-> docPath \in DOMAIN pre.cache,
     preFolders |-> pre.folders, created |-> created,
     foldersAfter |-> foldersAfter,
     cacheBefore |-> pre.cache, cacheAfter |-> cacheAfter]

\* the call runs to its return, or to its first await of createFolder
CreateCall(docPath) ==
    /\ reg.pc = "idle"
    /\ Len(callLog) < MaxCalls
    /\ LET r == CreateAssetFolder(World, docPath)
       IN  IF r.k = "return"
           THEN /\ cache' = r.cache
                /\ reg' = RegIdle
                /\ callLog' = Append(callLog,
                       CreateEntry(docPath, "return", r.result, <<>>, World,
                                   r.cache, folders))
           ELSE /\ reg' = [pc |-> "create", doc |-> docPath, i |-> r.i,
                           path |-> r.path, created |-> <<>>,
                           folders |-> folders, cache |-> cache]
                /\ UNCHANGED <<cache, callLog>>
    /\ UNCHANGED <<docs, folders, files, content, em, timers, procs, paused,
                   feTxn, registered, now, imageAttachmentLocation, h>>

\* createFolder settles: the loop goes on to its next await or to the
\* return; a rejection leaves createAssetFolder as an exception
CreateSettle(outcome) ==
    /\ reg.pc = "create"
    /\ outcome \in CreateFolderOutcomes(World, reg.path)
    /\ IF outcome = "ok"
       THEN LET w1 == [World EXCEPT !.folders = folders \cup {reg.path}]
                r == CreateAssetFolderLoop(w1, reg.doc, reg.i + 1)
                created == Append(reg.created, reg.path)
            IN  /\ folders' = w1.folders
                /\ IF r.k = "return"
                   THEN /\ cache' = r.cache
                        /\ reg' = RegIdle
                        /\ callLog' = Append(callLog,
                               CreateEntry(reg.doc, "return", r.result, created,
                                           reg, r.cache, w1.folders))
                   ELSE /\ reg' = [reg EXCEPT !.i = r.i, !.path = r.path,
                                              !.created = created]
                        /\ UNCHANGED <<cache, callLog>>
       ELSE /\ reg' = RegIdle
            /\ callLog' = Append(callLog,
                   CreateEntry(reg.doc, "throw", NoPath, reg.created, reg,
                               cache, folders))
            /\ UNCHANGED <<folders, cache>>
    /\ UNCHANGED <<docs, files, content, em, timers, procs, paused, feTxn,
                   registered, now, imageAttachmentLocation, h>>

GetCall(docPath) ==
    /\ reg.pc = "idle"
    /\ Len(callLog) < MaxCalls
    /\ LET r == GetAssetFolderForDocument(World, docPath)
       IN  /\ cache' = r.cache
           /\ callLog' = Append(callLog,
                  [op |-> "get", doc |-> docPath, k |-> "return",
                   result |-> r.result,
                   docExists |-> DocAt(World, docPath) # "",
                   hit |-> docPath \in DOMAIN cache,
                   preFolders |-> folders, created |-> <<>>,
                   foldersAfter |-> folders,
                   cacheBefore |-> cache, cacheAfter |-> r.cache])
    /\ UNCHANGED <<docs, folders, files, content, em, timers, procs, paused,
                   feTxn, registered, now, imageAttachmentLocation, h, reg>>

DetectCall ==
    /\ reg.pc = "idle"
    /\ Len(callLog) < MaxCalls
    /\ cache' = DetectAssetFolders(World)
    /\ callLog' = Append(callLog,
           [op |-> "detect", doc |-> NoPath, k |-> "return", result |-> NoPath,
            docExists |-> FALSE, hit |-> FALSE,
            preFolders |-> folders, created |-> <<>>, foldersAfter |-> folders,
            cacheBefore |-> cache, cacheAfter |-> cache'])
    /\ UNCHANGED <<docs, folders, files, content, em, timers, procs, paused,
                   feTxn, registered, now, imageAttachmentLocation, h, reg>>

\* handlePasteEvent for an image pasted into document d, up to its first
\* await or to its end; a file at the folder's path is notified and thrown,
\* and the catch block notifies again
HandlePasteEvent(d) ==
    /\ reg.pc = "idle"
    /\ Len(callLog) < MaxCalls
    /\ LET assetsPath == AssetFolderOf(docs[d])
       IN  IF IsFile(World, assetsPath)
           THEN /\ reg' = RegIdle
                /\ callLog' = Append(callLog,
                       [op |-> "paste", doc |-> docs[d], k |-> "throw",
                        result |-> NoPath, docExists |-> TRUE,
                        hit |-> docs[d] \in DOMAIN cache,
                        preFolders |-> folders, created |-> <<>>,
                        foldersAfter |-> folders,
                        cacheBefore |-> cache, cacheAfter |-> cache,
                        occupied |-> TRUE, notices |-> 2,
                        preFiles |-> files, filesAfter |-> files])
           ELSE /\ reg' = [pc |-> IF IsFolder(World, assetsPath)
                                  THEN "pasteBuffer" ELSE "pasteFolder",
                           file |-> d, path |-> assetsPath,
                           created |-> <<>>, folders |-> folders,
                           files |-> files]
                /\ UNCHANGED callLog
    /\ UNCHANGED <<docs, folders, files, content, cache, em, timers, procs,
                   paused, feTxn, registered, now, imageAttachmentLocation, h>>

\* an await of handlePasteEvent settles: vault.createFolder ("pasteFolder"),
\* file.arrayBuffer ("pasteBuffer") or vault.createBinary ("pasteBinary");
\* any rejection ends in the catch block with one notice, the saved image is
\* inserted into the editor and notified
PasteSettle(outcome) ==
    /\ reg.pc \in {"pasteFolder", "pasteBuffer", "pasteBinary"}
    /\ LET fileName == <<"image-", ToString(now), ".png">>
           filePath == reg.path \o <<SEP>> \o fileName
           allowed == CASE reg.pc = "pasteFolder" ->
                               CreateFolderOutcomes(World, reg.path)
                        [] reg.pc = "pasteBuffer" -> {"ok", "error"}
                        [] OTHER ->
                               IF Exists(World, filePath) THEN {"exists"}
                               ELSE IF ~IsFolder(World, reg.path) THEN {"error"}
                               ELSE {"ok", "error"}
           ends == outcome # "ok" \/ reg.pc = "pasteBinary"
           saved == outcome = "ok" /\ reg.pc = "pasteBinary"
           made == IF outcome = "ok" /\ reg.pc = "pasteFolder"
                   THEN <<reg.path>> ELSE <<>>
       IN  /\ outcome \in allowed
           /\ folders' = folders \cup {made[j] : j \in 1..Len(made)}
           /\ files' = IF saved THEN files \cup {filePath} ELSE files
           /\ content' = IF saved
                         THEN [content EXCEPT ![reg.file] = @ \o Wiki(fileName)]
                         ELSE content
           /\ IF ends
              THEN /\ reg' = RegIdle
                   /\ callLog' = Append(callLog,
                          [op |-> "paste", doc |-> docs[reg.file],
                           k |-> IF saved THEN "return" ELSE "throw",
                           result |-> IF saved THEN filePath ELSE NoPath,
                           docExists |-> TRUE,
                           hit |-> docs[reg.file] \in DOMAIN cache,
                           preFolders |-> reg.folders,
                           created |-> reg.created \o made,
                           foldersAfter |-> folders',
                           cacheBefore |-> cache, cacheAfter |-> cache,
                           occupied |-> FALSE, notices |-> 1,
                           preFiles |-> reg.files, filesAfter |-> files'])
              ELSE /\ reg' = [reg EXCEPT
                                 !.pc = IF reg.pc = "pasteFolder"
                                        THEN "pasteBuffer" ELSE "pasteBinary",
                                 !.created = @ \o made]
                   /\ UNCHANGED callLog
    /\ UNCHANGED <<docs, cache, em, timers, procs, paused, feTxn, registered,
                   now, imageAttachmentLocation, h>>

\* outside the plugin a bound folder is deleted, or moved to a name that does
\* not end in the suffix: the rename listener passes such a folder by and the
\* delete listener handles image files only, so nothing of the plugin runs
ExternalFolderRemoved(p) ==
    /\ reg.pc = "idle"
    /\ Len(callLog) < MaxCalls
    /\ p \in folders
    /\ \E q \in DOMAIN cache : cache[q] = p
    /\ ~\E f \in folders : f # p /\ IsPrefix(p \o <<SEP>>, f)
    /\ folders' = folders \ {p}
    /\ files' = {f \in files : ~IsPrefix(p \o <<SEP>>, f)}
    /\ UNCHANGED <<docs, content, cache, em, timers, procs, paused, feTxn,
                   registered, now, imageAttachmentLocation, h, reg, callLog>>

CreateNext ==
    \/ \E p \in CreateDocPaths : CreateCall(p)
    \/ \E outcome \in Outcomes : CreateSettle(outcome)
    \/ \E p \in CreateDocPaths : GetCall(p)
    \/ DetectCall
    \/ \E d \in DocIds : HandlePasteEvent(d)
    \/ \E outcome \in Outcomes : PasteSettle(outcome)
    \/ \E p \in {AssetFolderOf(q) : q \in CreateDocPaths} : ExternalFolderRemoved(p)

SpecCreate == CreateInit /\ [][CreateNext]_vars

\* C14: every call of createAssetFolder that returns leaves the target folder
\* and all its ancestors in the vault, has created no folder that was there
\* before, and leaves the cache with (docPath -> target), also when the target
\* was a folder before the call; a second call for the same document right
\* after it changes neither the folders nor the cache.
C14_CreateIsIdempotentAndCaches ==
    \A i \in 1..Len(callLog) :
        LET e == callLog[i]
            target == AssetFolderOf(e.doc)
            parts == Split(target)
        IN  (e.op = "create" /\ e.k = "return") =>
                /\ e.result = target
                /\ \A n \in 1..Len(parts) : CurrentPath(parts, n) \in e.foldersAfter
                /\ \A j \in 1..Len(e.created) : e.created[j] \notin e.preFolders
                /\ e.doc \in DOMAIN e.cacheAfter
                /\ e.cacheAfter[e.doc] = target
                /\ (/\ i > 1
                    /\ callLog[i - 1].op = "create"
                    /\ callLog[i - 1].k = "return"
                    /\ callLog[i - 1].doc = e.doc) =>
                       /\ e.foldersAfter = callLog[i - 1].foldersAfter
                       /\ e.cacheAfter = callLog[i - 1].cacheAfter

\* C15: a call of createAssetFolder for a path at which no document is
\* stored ends in an error, creates no folder and adds no binding.
C15_MissingDocumentIsRejected ==
    \A i \in 1..Len(callLog) :
        LET e == callLog[i]
        IN  (e.op = "create" /\ ~e.docExists) =>
                /\ e.k = "throw"
                /\ e.created = <<>>
                /\ e.foldersAfter = e.preFolders
                /\ e.cacheAfter = e.cacheBefore

-----------------------------------------------------------------------------
\* The rename listener for image files and EventManager.handleImageRename

\* AssetManager.isInAssetFolder: a part before the last ends in the suffix
IsInAssetFolder(path) ==
    LET parts == Split(path)
    IN  \E i \in 1..(Len(parts) - 1) :
            parts[i] # <<>> /\ Last(parts[i]) = ASSETS_FOLDER_SUFFIX

\* getDocumentPathFromImagePath: the document of the first part that ends in
\* the suffix and has a markdown file next to it; NoPath stands for null
\* (vault paths hold no empty part, so CurrentPath is slice(0, i+1).join('/'))
GetDocumentPathFromImagePath(w, imagePath) ==
    LET parts == Split(imagePath)
        docOf(i) == ReplaceFirst(CurrentPath(parts, i), ASSETS_FOLDER_SUFFIX, MD_EXT)
        c == {i \in 1..Len(parts) :
                 /\ parts[i] # <<>>
                 /\ Last(parts[i]) = ASSETS_FOLDER_SUFFIX
                 /\ DocAt(w, docOf(i)) # ""}
    IN  IF c = {} THEN NoPath ELSE docOf(Min(c))

\* where the image of document a.md may be stored: under two names in its
\* folder, or outside of it
AssetImagePaths ==
    {AssetFolderOf(PathA) \o <<SEP, "x", ".png">>,
     AssetFolderOf(PathA) \o <<SEP, "y", ".png">>,
     <<"x", ".png">>}

ImgInit ==
    /\ docs = [d \in DocIds |-> IF d = "d1" THEN PathA ELSE PathB]
    /\ folders = {AssetFolderOf(PathA), AssetFolderOf(PathB)}
    /\ files = {AssetFolderOf(PathA) \o <<SEP, "x", ".png">>,
                AssetFolderOf(PathB) \o <<SEP, "x", ".png">>}
    /\ \E own \in {Markdown(<<"alt">>, AssetFolderOf(PathA) \o <<SEP, "x", ".png">>),
                   Wiki(AssetFolderOf(PathA) \o <<SEP, "x", ".png">>),
                   Img("<img", "\"", AssetFolderOf(PathA) \o <<SEP, "x", ".png">>)} :
       \E other \in {<<>>,
                     <<"text">>,
                     Markdown(<<"alt">>, AssetFolderOf(PathB) \o <<SEP, "x", ".png">>),
                     Wiki(AssetFolderOf(PathB) \o <<SEP, "x", ".png">>),
                     Markdown(<<"alt">>, AssetFolderOf(PathA) \o <<SEP, "x", ".png">>)} :
          content = [d \in DocIds |-> IF d = "d1" THEN own ELSE other]
    /\ cache = [p \in {PathA, PathB} |-> AssetFolderOf(p)]
    /\ CoordinatorAtRest
    /\ reg = RegIdle
    /\ callLog = <<>>

\* the user renames or moves an image file; the rename listener dispatches it
\* to handleImageRename, which runs up to its first await (the first
\* vault.read of findReferencingDocs)
ImageRenameListener(oldPath, newPath) ==
    /\ reg.pc = "idle"
    /\ Len(callLog) < MaxCalls
    /\ oldPath \in files /\ newPath \notin files /\ newPath # oldPath
    /\ files' = (files \ {oldPath}) \cup {newPath}
    /\ IF Last(newPath) = ".png" /\ IsInAssetFolder(newPath)
       THEN /\ paused' = TRUE
            /\ reg' = [pc |-> "scan", old |-> oldPath, new |-> newPath,
                       at |-> 1, refs |-> <<>>, text |-> <<>>,
                       before |-> content, found |-> <<>>, failed |-> {}]
       ELSE UNCHANGED <<paused, reg>>
    /\ UNCHANGED <<docs, folders, content, cache, em, timers, procs, feTxn,
                   registered, now, imageAttachmentLocation, h, callLog>>

\* handleImageRename whose scan is left by the first vault.read that fails
ImageHandlerSettle_ScanAborts(outcome) ==
    /\ reg.pc \in {"scan", "read", "modify"}
    /\ LET markdownFiles == <<"d1", "d2">>
           oldImageName == BaseName(reg.old)
           includes(text) ==
               \E j \in 1..Len(text) :
                   /\ j + Len(oldImageName) - 1 <= Len(text)
                   /\ SubSeq(text, j, j + Len(oldImageName) - 1) = oldImageName
           scanned == IF outcome = "ok" /\ includes(content[markdownFiles[reg.at]])
                      THEN Append(reg.refs, markdownFiles[reg.at])
                      ELSE reg.refs
           failed == IF outcome = "ok" THEN reg.failed
                     ELSE reg.failed \cup {markdownFiles[reg.at]}
           newContent == ApplyRules(1, content[Head(reg.refs)], reg.old, reg.new)
           r == CASE reg.pc = "scan" /\ outcome # "ok" ->
                         [reg EXCEPT !.pc = "read", !.refs = <<>>,
                                     !.found = <<>>, !.failed = failed]
                  [] reg.pc = "scan" /\ reg.at < Len(markdownFiles) ->
                         [reg EXCEPT !.at = @ + 1, !.refs = scanned,
                                     !.failed = failed]
                  [] reg.pc = "scan" ->
                         [reg EXCEPT !.pc = "read", !.refs = scanned,
                                     !.found = scanned, !.failed = failed]
                  [] reg.pc = "read" /\ outcome = "ok"
                       /\ newContent # content[Head(reg.refs)] ->
                         [reg EXCEPT !.pc = "modify", !.text = newContent]
                  [] OTHER ->
                         [reg EXCEPT !.pc = "read", !.refs = Tail(@)]
       IN  /\ content' = IF reg.pc = "modify" /\ outcome = "ok"
                         THEN [content EXCEPT ![Head(reg.refs)] = reg.text]
                         ELSE content
           /\ IF r.pc = "read" /\ r.refs = <<>>
              THEN /\ paused' = FALSE
                   /\ reg' = RegIdle
                   /\ callLog' = Append(callLog,
                          [op |-> "image", old |-> reg.old, new |-> reg.new,
                           owner |-> GetDocumentPathFromImagePath(World, reg.new),
                           found |-> r.found, failed |-> r.failed,
                           before |-> reg.before, after |-> content'])
              ELSE /\ reg' = r
                   /\ UNCHANGED <<paused, callLog>>
    /\ UNCHANGED <<docs, folders, files, cache, em, timers, procs, feTxn,
                   registered, now, imageAttachmentLocation, h>>

\* one awaited storage call of handleImageRename settles: a vault.read of
\* findReferencingDocs ("scan"), or the vault.read ("read") or vault.modify
\* ("modify") of updateImageReference for the next referencing document;
\* after the last one the finally block resumes the observer
ImageHandlerSettle(outcome) ==
    /\ reg.pc \in {"scan", "read", "modify"}
    /\ LET markdownFiles == <<"d1", "d2">>
           oldImageName == BaseName(reg.old)
           includes(text) ==
               \E j \in 1..Len(text) :
                   /\ j + Len(oldImageName) - 1 <= Len(text)
                   /\ SubSeq(text, j, j + Len(oldImageName) - 1) = oldImageName
           scanned == IF outcome = "ok" /\ includes(content[markdownFiles[reg.at]])
                      THEN Append(reg.refs, markdownFiles[reg.at])
                      ELSE reg.refs
           failed == IF outcome = "ok" THEN reg.failed
                     ELSE reg.failed \cup {markdownFiles[reg.at]}
           newContent == ApplyRules(1, content[Head(reg.refs)], reg.old, reg.new)
           r == CASE reg.pc = "scan" /\ reg.at < Len(markdownFiles) ->
                         [reg EXCEPT !.at = @ + 1, !.refs = scanned,
                                     !.failed = failed]
                  [] reg.pc = "scan" ->
                         [reg EXCEPT !.pc = "read", !.refs = scanned,
                                     !.found = scanned, !.failed = failed]
                  [] reg.pc = "read" /\ outcome = "ok"
                       /\ newContent # content[Head(reg.refs)] ->
                         [reg EXCEPT !.pc = "modify", !.text = newContent]
                  [] OTHER ->
                         [reg EXCEPT !.pc = "read", !.refs = Tail(@)]
       IN  /\ content' = IF reg.pc = "modify" /\ outcome = "ok"
                         THEN [content EXCEPT ![Head(reg.refs)] = reg.text]
                         ELSE content
           /\ IF r.pc = "read" /\ r.refs = <<>>
              THEN /\ paused' = FALSE
                   /\ reg' = RegIdle
                   /\ callLog' = Append(callLog,
                          [op |-> "image", old |-> reg.old, new |-> reg.new,
                           owner |-> GetDocumentPathFromImagePath(World, reg.new),
                           found |-> r.found, failed |-> r.failed,
                           before |-> reg.before, after |-> content'])
              ELSE /\ reg' = r
                   /\ UNCHANGED <<paused, callLog>>
    /\ UNCHANGED <<docs, folders, files, cache, em, timers, procs, feTxn,
                   registered, now, imageAttachmentLocation, h>>

ImgNext ==
    \/ \E old \in AssetImagePaths : \E new \in AssetImagePaths :
          ImageRenameListener(old, new)
    \/ \E outcome \in {"ok", "error"} : ImageHandlerSettle(outcome)

SpecImage == ImgInit /\ [][ImgNext]_vars

\* C17: a handled rename of an image changes the text of no document other
\* than the one the reverse lookup from the image's path gives.
C17_OnlyOwningDocumentRewritten ==
    \A i \in 1..Len(callLog) :
        LET e == callLog[i]
        IN  \A d \in DocIds :
                docs[d] # e.owner => e.after[d] = e.before[d]

-----------------------------------------------------------------------------
\* Renames of a document that keep its file name and change its folder

\* the vault in which F/a.md is free, so that a.md can be moved into F
InitMove ==
    /\ docs = [d \in DocIds |-> IF d = "d1" THEN PathA ELSE PathDeep]
    /\ folders = {AssetFolderOf(PathA)}
    /\ files = {}
    /\ content = [d \in DocIds |-> ReferenceText]
    /\ cache = EmptyCache
    /\ em = EmInit
    /\ timers = {}
    /\ procs = [i \in Slots |-> NoProc]
    /\ paused = FALSE
    /\ feTxn = NoTxn
    /\ registered = TRUE
    /\ now = 0
    /\ imageAttachmentLocation = DefaultPattern
    /\ h = HInit
    /\ reg = RegIdle
    /\ callLog = <<>>

SpecMove == InitMove /\ [][Next]_vars

\* C18: the handler of a document rename reads and writes the document only
\* when the last segment of the expected attachment folder has changed; no
\* handler ever has a document write pending for a change of the parent path
\* alone.
C18_RewriteOnlyWhenFolderNameChanged ==
    \A i \in Slots :
        /\ (procs[i].kind = "doc" /\ procs[i].pc \in {"read", "modify"}) =>
               BaseName(procs[i].rwOld) # BaseName(procs[i].rwNew)
        /\ procs[i].pc = "modify" =>
               BaseName(procs[i].rwOld) # BaseName(procs[i].rwNew)

C18_Witness ==
    /\ docs["d1"] = PathC
    /\ IsFolder(World, AssetFolderOf(PathC))
    /\ PathC \in DOMAIN cache /\ cache[PathC] = AssetFolderOf(PathC)
    /\ \A i \in Slots : procs[i].kind # "doc"
    /\ h.nEvents = 1
    /\ content["d1"] = ReferenceText

\* C19: while a document-rename handler is between its pause of the DOM
\* observer and its finally block, the observer is paused, however the
\* handlers interleave.
C19_ObserverPausedWhileHandlerInFlight ==
    (\E i \in Slots :
        /\ procs[i].kind = "doc"
        /\ procs[i].pc \in {"move", "renamed", "read", "modify"}) => paused

-----------------------------------------------------------------------------
\* FileExplorerEnhancer: the expansion state of the documents' image lists.
\* reg.expansionState is the Map expansionState, feTxn the field
\* _currentTransactionId.

\* lines "wasExpanded = expansionState.get(oldPath) || false; if (wasExpanded)
\* { set(newPath, wasExpanded); delete(oldPath) }"
MigrateExpansionState(expansionState, oldPath, newPath) ==
    LET wasExpanded == oldPath \in DOMAIN expansionState /\ expansionState[oldPath]
    IN  IF wasExpanded
        THEN CacheDelete(CacheSet(expansionState, newPath, wasExpanded), oldPath)
        ELSE expansionState

ExplorerInit ==
    /\ docs = [d \in DocIds |-> IF d = "d1" THEN PathA ELSE PathC]
    /\ folders = {}
    /\ files = {}
    /\ content = [d \in DocIds |-> <<>>]
    /\ cache = EmptyCache
    /\ CoordinatorAtRest
    /\ reg = [pc |-> "explorer", expansionState |-> EmptyCache]
    /\ callLog = <<>>

\* the user expands or collapses the image list of a document
ToggleExpansion(d, expand) ==
    /\ reg' = [reg EXCEPT !.expansionState = CacheSet(@, docs[d], expand)]
    /\ UNCHANGED <<docs, folders, files, content, cache, em, timers, procs,
                   paused, feTxn, registered, now, imageAttachmentLocation, h,
                   callLog>>

\* a document is renamed and the coordinator calls
\* handleDocumentRename(oldPath, newPath, transactionId)
ExplorerDocumentRename(d, newPath, transactionId) ==
    /\ Len(callLog) < MaxCalls
    /\ newPath # docs[d]
    /\ DocAt(World, newPath) = ""
    /\ LET oldPath == docs[d]
           skipped == transactionId # NoTxn /\ feTxn = transactionId
           after == IF skipped THEN reg.expansionState
                    ELSE MigrateExpansionState(reg.expansionState, oldPath, newPath)
       IN  /\ docs' = [docs EXCEPT ![d] = newPath]
           /\ feTxn' = ExplorerHandleDocumentRename(World, transactionId).feTxn
           /\ reg' = [reg EXCEPT !.expansionState = after]
           /\ callLog' = Append(callLog,
                  [old |-> oldPath, new |-> newPath, skipped |-> skipped,
                   before |-> reg.expansionState, after |-> after])
    /\ UNCHANGED <<folders, files, content, cache, em, timers, procs, paused,
                   registered, now, imageAttachmentLocation, h>>

ExplorerNext ==
    \/ \E d \in DocIds, expand \in BOOLEAN : ToggleExpansion(d, expand)
    \/ \E d \in DocIds, p \in DocPaths, rnd \in Rnds :
          ExplorerDocumentRename(d, p, GenerateTransactionId(now, rnd))

SpecExplorer == ExplorerInit /\ [][ExplorerNext]_vars

\* C20: after a rename that the explorer handled, the new path is expanded
\* exactly if the old path was expanded before, and the old path has no entry,
\* whatever was stored under the new path.
C20_ExpansionStateFollowsRename ==
    \A i \in 1..Len(callLog) :
        LET e == callLog[i]
            expanded(m, p) == p \in DOMAIN m /\ m[p]
        IN  ~e.skipped =>
                /\ expanded(e.after, e.new) = expanded(e.before, e.old)
                /\ e.old \notin DOMAIN e.after

\* C21: the scan of findReferencingDocs goes through every markdown file
\* whatever reads fail: its result holds exactly the documents that could be
\* read and whose text contains the old file name of the image.
C21_ScanSurvivesReadFailure ==
    \A i \in 1..Len(callLog) :
        LET e == callLog[i]
            name == BaseName(e.old)
            includes(text) ==
                \E j \in 1..Len(text) :
                    /\ j + Len(name) - 1 <= Len(text)
                    /\ SubSeq(text, j, j + Len(name) - 1) = name
        IN  {e.found[k] : k \in 1..Len(e.found)} =
                {d \in DocIds : d \notin e.failed /\ includes(e.before[d])}

C21_Witness ==
    \E i \in 1..Len(callLog) :
        /\ callLog[i].failed = {"d1"}
        /\ callLog[i].found = <<"d2">>

\* C22: a paste into a document whose attachment-folder path is occupied by
\* a file shows exactly one notice and creates neither a folder nor a file.
C22_OccupiedPathGivesOneNotice ==
    \A i \in 1..Len(callLog) :
        LET e == callLog[i]
        IN  (e.op = "paste" /\ e.occupied) =>
                /\ e.notices = 1
                /\ e.foldersAfter = e.preFolders
                /\ e.filesAfter = e.preFiles

\* C24: a lookup never returns a path at which no folder is stored, also
\* when the folder it had cached has been removed behind the plugin's back.
C24_LookupNeverReturnsVanishedFolder ==
    \A i \in 1..Len(callLog) :
        LET e == callLog[i]
        IN  (e.op = "get" /\ e.result # NoPath) => e.result \in e.foldersAfter

\* ---------------------------------------------------------------------
\* publishToWechat: the draft of a document on the server and the media_id
\* kept in the document's metadata.json.  reg.stored is the metadata file of
\* each document, reg.server the drafts the server holds (the document each
\* was added for; a draft's media_id is its position), a media_id of 0 is
\* JavaScript's undefined.
PublishInit ==
    /\ docs = [d \in DocIds |-> IF d = "d1" THEN PathA ELSE PathC]
    /\ folders = {}
    /\ files = {}
    /\ content = [d \in DocIds |-> <<>>]
    /\ cache = EmptyCache
    /\ CoordinatorAtRest
    /\ reg = [pc |-> "idle",
              stored |-> [d \in DocIds |-> [present |-> FALSE, media_id |-> 0, title |-> "", updateTime |-> 0]],
              server |-> <<>>]
    /\ callLog = <<>>

\* publishToWechat(title, content, thumb, file) up to its first await
PublishToWechat(d, title) ==
    /\ reg.pc = "idle"
    /\ Len(callLog) < MaxCalls
    /\ reg' = [pc |-> "token", file |-> d, title |-> title, request |-> "none",
               draft |-> reg.stored[d], media_id |-> 0,
               stored |-> reg.stored, server |-> reg.server]
    /\ UNCHANGED <<docs, folders, files, content, cache, em, timers, procs,
                   paused, feTxn, registered, now, imageAttachmentLocation, h,
                   callLog>>

\* the pending await of publishToWechat settles: the access token, the
\* images, the metadata, the draft request, the write of metadata.json.
\* hasId: the answer to a draft update carries a media_id.
PublishSettle(outcome, hasId) ==
    LET d == reg.file
        Return(result, stored, server) ==
            /\ callLog' = Append(callLog,
                   [file |-> d, title |-> reg.title, request |-> reg.request,
                    result |-> result, before |-> reg.stored[d],
                    storedAfter |-> stored[d],
                    drafts |-> Cardinality({i \in 1..Len(server) : server[i] = d})])
            /\ reg' = [pc |-> "idle", stored |-> stored, server |-> server]
        UpdateDraftMetadata(draftData) ==
            [present |-> TRUE, media_id |-> draftData.media_id,
             title |-> draftData.title, updateTime |-> now]
    IN  /\ reg.pc \in {"token", "images", "metadata", "update", "add", "write"}
        /\ IF outcome # "ok" /\ reg.pc # "write"
           THEN Return(FALSE, reg.stored, reg.server)
           ELSE CASE reg.pc = "token" ->
                       /\ reg' = [reg EXCEPT !.pc = "images"]
                       /\ UNCHANGED callLog
                  [] reg.pc = "images" ->
                       /\ reg' = [reg EXCEPT !.pc = "metadata"]
                       /\ UNCHANGED callLog
                  [] reg.pc = "metadata" ->
                       LET metadata == reg.stored[d]
                           known == metadata.present /\ metadata.media_id # 0
                       IN  /\ reg' = [reg EXCEPT
                                  !.draft = metadata,
                                  !.media_id = IF metadata.present THEN metadata.media_id ELSE 0,
                                  !.request = IF known THEN "update" ELSE "add",
                                  !.pc = IF known THEN "update" ELSE "add"]
                           /\ UNCHANGED callLog
                  [] reg.pc = "update" ->
                       LET id == IF hasId THEN reg.draft.media_id ELSE reg.media_id
                       IN  /\ reg' = [reg EXCEPT
                                  !.media_id = id,
                                  !.draft = UpdateDraftMetadata([media_id |-> id, title |-> reg.title]),
                                  !.pc = "write"]
                           /\ UNCHANGED callLog
                  [] reg.pc = "add" ->
                       /\ reg' = [reg EXCEPT
                              !.server = Append(@, d),
                              !.draft = UpdateDraftMetadata([media_id |-> reg.media_id, title |-> reg.title]),
                              !.pc = "write"]
                       /\ UNCHANGED callLog
                  [] reg.pc = "write" ->
                       IF outcome = "ok"
                       THEN Return(TRUE, [reg.stored EXCEPT ![d] = reg.draft], reg.server)
                       ELSE Return(FALSE, reg.stored, reg.server)
        /\ UNCHANGED <<docs, folders, files, content, cache, em, timers, procs,
                       paused, feTxn, registered, now, imageAttachmentLocation, h>>

SpecPublish ==
    PublishInit /\ [][\/ \E d \in DocIds, title \in {"t1", "t2"} : PublishToWechat(d, title)
                      \/ \E outcome \in {"ok", "error"}, hasId \in BOOLEAN : PublishSettle(outcome, hasId)]_vars

\* C23: a publish that succeeds leaves a media_id in the document's metadata,
\* and a successful publish of a document that was published successfully
\* before sends a draft update, so that the server holds one draft of it.
C23_SecondPublishUpdatesTheDraft ==
    \A i \in 1..Len(callLog) :
        LET e == callLog[i]
        IN  e.result =>
                /\ e.storedAfter.present /\ e.storedAfter.media_id # 0
                /\ (\E j \in 1..(i - 1) : callLog[j].file = e.file /\ callLog[j].result)
                       => (e.request = "update" /\ e.drafts = 1)

\* C25: a document that holds one reference whose target is exactly old holds,
\* after rewriting old -> new, the same reference with the target new: the
\* rules of the file names leave the rewritten reference alone, also when the
\* file name of new contains the file name of old.
C25_FullPathMatchIsNotRewrittenAgain ==
    \A i \in 1..Len(callLog) :
        LET e == callLog[i]
        IN  e.outcome = "ok" =>
                /\ e.before = Markdown(<<"alt">>, e.old) => e.after = Markdown(<<"alt">>, e.new)
                /\ e.before = Wiki(e.old) => e.after = Wiki(e.new)
                /\ e.before = Img("<img", "\"", e.old) => e.after = Img("<img", "\"", e.new)

\* ---------------------------------------------------------------------
\* The view: the retries of enhanceFileExplorer and rebuildDocumentIndicator
\* while elements of the file explorer are missing, and the image rows of one
\* document's container under updateImagesContainer.  Delays are counted in
\* sixteenths of a millisecond, so that 100 * 1.5^n is an integer.
maxRetries == 5

maxAttempts == 3

ViewInit ==
    /\ docs = [d \in DocIds |-> IF d = "d1" THEN PathA ELSE PathC]
    /\ folders = {AssetFolderOf(PathA)}
    /\ \E imgs \in {{}, {"i1"}, {"i1", "i2"}} :
          files = {AssetFolderOf(PathA) \o <<SEP, i, ".png">> : i \in imgs}
    /\ content = [d \in DocIds |-> <<>>]
    /\ cache = EmptyCache
    /\ CoordinatorAtRest
    /\ reg = [pc |-> "idle", retryCount |-> 0, leaf |-> FALSE, attempts |-> 0,
              delays |-> <<>>,
              rebuild |-> [pc |-> "idle", attempts |-> 0, runs |-> 0],
              rows |-> <<>>, version |-> -1, registry |-> 0, skipped |-> FALSE,
              calls |-> [k \in 1..2 |-> [pc |-> "idle", images |-> <<>>]]]
    /\ callLog = <<>>

\* attemptProcessFolders with one more retry than maxRetries
AttemptProcessFolders_OneMoreRetry(leaf, el, pending) ==
    LET retry(ms16, kind) ==
            [reg EXCEPT !.pc = "timer", !.retryCount = @ + 1,
                        !.delays = Append(@, [ms16 |-> ms16, kind |-> kind])]
        n == reg.retryCount
        backoff == (1600 * 3^n) \div 2^n
        delay == IF backoff < 16000 THEN backoff ELSE 16000
    IN  /\ reg.pc \in {"idle", "timer", "await"}
        /\ reg' =
             IF reg.pc = "await"
             THEN IF ~el THEN retry(1600, "missing")
                  ELSE IF pending /\ n < maxRetries + 1 THEN retry(delay, "pending")
                  ELSE [reg EXCEPT !.pc = "done"]
             ELSE IF n > maxRetries + 1 THEN [reg EXCEPT !.pc = "done"]
                  ELSE IF ~reg.leaf /\ ~leaf
                       THEN [retry(1600, "missing") EXCEPT !.attempts = @ + 1]
                       ELSE [reg EXCEPT !.pc = "await", !.leaf = TRUE,
                                        !.attempts = @ + 1]
        /\ UNCHANGED <<docs, folders, files, content, cache, em, timers, procs,
                       paused, feTxn, registered, now, imageAttachmentLocation,
                       h, callLog>>

\* attemptProcessFolders(retryCount, maxRetries): the call from
\* enhanceFileExplorer or from a retry timer up to the await of
\* detectAssetFolders, and the rest of it after the await.  leaf: the file
\* explorer leaf is found; el: its element is there; pending: a document or
\* folder element was not found
AttemptProcessFolders(leaf, el, pending) ==
    LET retry(ms16, kind) ==
            [reg EXCEPT !.pc = "timer", !.retryCount = @ + 1,
                        !.delays = Append(@, [ms16 |-> ms16, kind |-> kind])]
        n == reg.retryCount
        backoff == (1600 * 3^n) \div 2^n
        delay == IF backoff < 16000 THEN backoff ELSE 16000
    IN  /\ reg.pc \in {"idle", "timer", "await"}
        /\ reg' =
             IF reg.pc = "await"
             THEN IF ~el THEN retry(1600, "missing")
                  ELSE IF pending /\ n < maxRetries THEN retry(delay, "pending")
                  ELSE [reg EXCEPT !.pc = "done"]
             ELSE IF n > maxRetries THEN [reg EXCEPT !.pc = "done"]
                  ELSE IF ~reg.leaf /\ ~leaf
                       THEN [retry(1600, "missing") EXCEPT !.attempts = @ + 1]
                       ELSE [reg EXCEPT !.pc = "await", !.leaf = TRUE,
                                        !.attempts = @ + 1]
        /\ UNCHANGED <<docs, folders, files, content, cache, em, timers, procs,
                       paused, feTxn, registered, now, imageAttachmentLocation,
                       h, callLog>>

\* findAndEnhanceElement of rebuildDocumentIndicator, called at once and then
\* from requestAnimationFrame; found: both elements are in the explorer
FindAndEnhanceElement(found) ==
    LET r == reg.rebuild
        attempts == r.attempts + 1
    IN  /\ r.pc \in {"idle", "frame"}
        /\ reg' = [reg EXCEPT !.rebuild =
                     IF found THEN [r EXCEPT !.pc = "done", !.runs = @ + 1]
                     ELSE [pc |-> IF attempts < maxAttempts THEN "frame" ELSE "done",
                           attempts |-> attempts, runs |-> r.runs + 1]]
        /\ UNCHANGED <<docs, folders, files, content, cache, em, timers, procs,
                       paused, feTxn, registered, now, imageAttachmentLocation,
                       h, callLog>>

\* refreshDocumentView(docPath, force) -> updateImagesContainer up to its
\* await (call k is idle), and updateImagesContainer after the await (call k
\* is waiting); connected: the container is still in the document
UpdateImagesContainer(k, force, connected) ==
    LET folderPath == AssetFolderOf(PathA)
        inFolder == {f \in files : IsPrefix(folderPath \o <<SEP>>, f)}
        images == CHOOSE s \in [1..Cardinality(inFolder) -> inFolder] :
                      \A f \in inFolder : \E i \in DOMAIN s : s[i] = f
        c == reg.calls[k]
    IN  /\ IF c.pc = "idle"
           THEN /\ Len(callLog) < MaxCalls
                /\ force \/ reg.version = -1 \/ reg.registry > reg.version
                /\ reg' = [reg EXCEPT
                       !.rows = <<>>,
                       !.calls[k] = IF folderPath \in folders
                                    THEN [pc |-> "await", images |-> images]
                                    ELSE c]
                /\ callLog' = Append(callLog, [call |-> k, force |-> force])
           ELSE /\ reg' = IF connected
                          THEN [reg EXCEPT !.rows = @ \o c.images,
                                           !.version = now, !.registry = now,
                                           !.calls[k] = [pc |-> "idle", images |-> <<>>]]
                          ELSE [reg EXCEPT !.skipped = TRUE,
                                           !.calls[k] = [pc |-> "idle", images |-> <<>>]]
                /\ UNCHANGED callLog
        /\ UNCHANGED <<docs, folders, files, content, cache, em, timers, procs,
                       paused, feTxn, registered, now, imageAttachmentLocation, h>>

SpecView ==
    ViewInit /\ [][\/ \E leaf \in BOOLEAN, el \in BOOLEAN, pending \in BOOLEAN :
                         AttemptProcessFolders(leaf, el, pending)
                   \/ \E found \in BOOLEAN : FindAndEnhanceElement(found)]_vars

SpecContainer ==
    ViewInit /\ [][\E k \in 1..2, force \in BOOLEAN, connected \in BOOLEAN :
                      UpdateImagesContainer(k, force, connected)]_vars

C29_OneRowPerImage ==
    LET folderPath == AssetFolderOf(PathA)
        inFolder == {f \in files : IsPrefix(folderPath \o <<SEP>>, f)}
    IN  (/\ callLog # <<>>
         /\ ~reg.skipped
         /\ \A k \in 1..2 : reg.calls[k].pc = "idle")
            => /\ Len(reg.rows) = Cardinality(inFolder)
               /\ {reg.rows[i] : i \in 1..Len(reg.rows)} = inFolder

\* C27: when the vault has delivered a document's rename a second time after
\* the first delivery was handled, and the asset folder was at the path of the
\* new name then, the folders of the vault and the bindings of the cache stay
\* what they were at the second delivery.
C27_SecondDeliveryMovesNothing ==
    (/\ h.redo.on
     /\ registered
     /\ ReplaceMdSuffix(h.lastDoc.path, DEFAULT_ASSETS_SUFFIX) \in h.redo.folders)
        => /\ folders = h.redo.folders
           /\ cache = h.redo.cache

\* C28: as long as no transaction was closed by its timer and the listeners
\* are registered, a document-rename
\* handler that has opened its transaction and has not reached its finally
\* block finds a transaction open and the busy flag set, also when another
\* document-rename handler has finished in between.
C28_BusyWhileAnyHandlerInFlight ==
    \A i \in Slots :
        (/\ h.timedOut = {}
         /\ registered
         /\ procs[i].kind = "doc"
         /\ procs[i].pc \in {"move", "renamed", "read", "modify"})
            => /\ em.busy
               /\ em.txnId # NoTxn

\* C30: under every pattern, the folder path that handleDocumentRenameProcess
\* tests for a collision is the path the resolver gives for the document,
\* and isAssetFolder recognises that path as an asset folder.
C30_CoordinatorExaminesResolvedPath ==
    \A i \in 1..Len(callLog) :
        LET e == callLog[i]
            newAssetFolder == ReplaceMdSuffix(e.doc, DEFAULT_ASSETS_SUFFIX)
        IN  /\ newAssetFolder = e.result
            /\ IsAssetFolder(e.result)

====
